---------------------------- MODULE Spec2Model ----------------------------
(***************************************************************************)
(* A model of the line-numbered BASIC interpreter of kaz399/selfstudy-basic *)
(* (Go): lexer, parser, AST, environment, program table, interpreter and   *)
(* the REPL that drives them.                                              *)
(*                                                                         *)
(* Conventions.                                                            *)
(*  - A Go string is a sequence of one-character strings; a byte is a      *)
(*    one-character string and the zero byte is NUL.                       *)
(*  - Go slices and strings are 0-based; Slice(s, a, b) is s[a:b].         *)
(*  - A float64 is an exact rational [n, d] in lowest terms with d > 0.    *)
(*    The model stays within values a float64 holds exactly; rounding,     *)
(*    infinities, NaN and the sign of zero are outside it.                 *)
(*  - A Go map is a function whose DOMAIN is the key set.                  *)
(*  - nil is Nil.                                                          *)
(***************************************************************************)
EXTENDS Integers, Sequences, FiniteSets, TLC

\* nil, for statements and expressions (a record, as the AST nodes are)
Nil == [node |-> "nil"]

\* The element of a one-element set.  A value that is used several times is
\* bound as The({ F(x) : x \in {e} }), which is F(e) with e evaluated once.
The(S) == CHOOSE x \in S : TRUE

(***************************************************************************)
(* Bytes and strings.                                                      *)
(***************************************************************************)
NUL == ""

DigitChars == <<"0", "1", "2", "3", "4", "5", "6", "7", "8", "9">>

LowerChars ==
  <<"a", "b", "c", "d", "e", "f", "g", "h", "i", "j", "k", "l", "m",
    "n", "o", "p", "q", "r", "s", "t", "u", "v", "w", "x", "y", "z">>

UpperChars ==
  <<"A", "B", "C", "D", "E", "F", "G", "H", "I", "J", "K", "L", "M",
    "N", "O", "P", "Q", "R", "S", "T", "U", "V", "W", "X", "Y", "Z">>

Range(s) == { s[i] : i \in 1..Len(s) }

Slice(s, a, b) == SubSeq(s, a + 1, b)

\* unicode.IsLetter(rune(ch)), on the ASCII letters
isLetter(ch) == ch \in Range(LowerChars) \cup Range(UpperChars)

isDigit(ch) == ch \in Range(DigitChars)

DigitVal(ch) == (CHOOSE i \in 1..10 : DigitChars[i] = ch) - 1

ToUpperChar(ch) ==
  IF ch \in Range(LowerChars)
    THEN UpperChars[CHOOSE i \in 1..26 : LowerChars[i] = ch]
    ELSE ch

\* strings.ToUpper
ToUpper(s) == [i \in 1..Len(s) |-> ToUpperChar(s[i])]

\* strings.HasSuffix(s, "$")
HasDollarSuffix(s) == Len(s) > 0 /\ s[Len(s)] = "$"

(***************************************************************************)
(* Lexer (lexer.go).                                                       *)
(***************************************************************************)
ILLEGAL == "ILLEGAL"
EOF     == "EOF"
IDENT   == "IDENT"
NUMBER  == "NUMBER"
STR     == "STRING"  \* STRING (a TLA+ built-in name)
ASSIGN  == "="
PLUS    == "+"
MINUS   == "-"
ASTER   == "*"
SLASH   == "/"
NEQ     == "<>"
LT      == "<"
LTE     == "<="
GT      == ">"
GTE     == ">="
LPAREN  == "("
RPAREN  == ")"
COMMA   == ","

Token(type, literal) == [Type |-> type, Literal |-> literal]

keywords ==
  (<<"R", "E", "M">> :> "REM") @@
  (<<"L", "E", "T">> :> "LET") @@
  (<<"P", "R", "I", "N", "T">> :> "PRINT") @@
  (<<"I", "N", "P", "U", "T">> :> "INPUT") @@
  (<<"I", "F">> :> "IF") @@
  (<<"T", "H", "E", "N">> :> "THEN") @@
  (<<"G", "O", "T", "O">> :> "GOTO") @@
  (<<"E", "N", "D">> :> "END") @@
  (<<"R", "U", "N">> :> "RUN") @@
  (<<"L", "I", "S", "T">> :> "LIST") @@
  (<<"N", "E", "W">> :> "NEW")

LookupIdent(s) ==
  LET u == ToUpper(s)
  IN  IF u \in DOMAIN keywords THEN keywords[u] ELSE IDENT

readChar(l) ==
  [l EXCEPT !.ch = IF l.readPosition >= Len(l.input)
                     THEN NUL
                     ELSE l.input[l.readPosition + 1],
            !.position = l.readPosition,
            !.readPosition = l.readPosition + 1]

NewLexer(input) ==
  readChar([input |-> input, position |-> 0, readPosition |-> 0, ch |-> NUL])

peekChar(l) ==
  IF l.readPosition >= Len(l.input) THEN NUL ELSE l.input[l.readPosition + 1]

RECURSIVE skipWhitespace(_)
skipWhitespace(l) ==
  IF l.ch \in {" ", "\t", "\r"} THEN skipWhitespace(readChar(l)) ELSE l

\* the loop of readIdentifier
RECURSIVE readIdentChars(_)
readIdentChars(l) ==
  IF isLetter(l.ch) \/ isDigit(l.ch) THEN readIdentChars(readChar(l)) ELSE l

readIdentifier(l) ==
  The({ The({ [s |-> Slice(l.input, l.position, l2.position), l |-> l2] :
              l2 \in {IF l1.ch = "$" THEN readChar(l1) ELSE l1} }) :
        l1 \in {readIdentChars(l)} })

\* the loop of readNumber
RECURSIVE readNumberChars(_, _)
readNumberChars(l, hasDot) ==
  IF isDigit(l.ch) \/ (~hasDot /\ l.ch = ".")
    THEN readNumberChars(readChar(l), hasDot \/ l.ch = ".")
    ELSE l

readNumber(l) ==
  The({ [s |-> Slice(l.input, l.position, l1.position), l |-> l1] :
        l1 \in {readNumberChars(l, FALSE)} })

\* the loop of readString
RECURSIVE readStringChars(_)
readStringChars(l) ==
  IF l.ch # "\"" /\ l.ch # NUL /\ l.ch # "\n"
    THEN readStringChars(readChar(l))
    ELSE l

\* a variant that goes back to the opening quote when the string has no end
readStringFromRewind(input, start, l1) ==
  IF l1.ch # "\""
    THEN [s |-> <<>>, ok |-> FALSE,
          l |-> [l1 EXCEPT !.ch = "\"", !.position = start - 1, !.readPosition = start]]
    ELSE [s |-> Slice(input, start, l1.position), ok |-> TRUE, l |-> readChar(l1)]

\* start is the position after the opening quote
readStringFrom(input, start, l1) ==
  IF l1.ch # "\""
    THEN [s |-> <<>>, ok |-> FALSE, l |-> l1]
    ELSE [s |-> Slice(input, start, l1.position), ok |-> TRUE, l |-> readChar(l1)]

readString(l) ==
  The({ The({ readStringFrom(l.input, l0.position, l1) :
              l1 \in {readStringChars(l0)} }) :
        l0 \in {readChar(l)} })

UnterminatedString ==
  <<"u", "n", "t", "e", "r", "m", "i", "n", "a", "t", "e", "d", " ",
    "s", "t", "r", "i", "n", "g">>

SingleCharTokens == {"+", "-", "*", "/", "(", ")", ",", "="}

\* the switch of NextToken, on the lexer after skipWhitespace
scanToken(l) ==
  CASE l.ch = NUL -> [tok |-> Token(EOF, <<>>), l |-> l]
    [] l.ch \in SingleCharTokens ->
         [tok |-> Token(l.ch, <<l.ch>>), l |-> readChar(l)]
    [] l.ch = "<" ->
         IF peekChar(l) = "="
           THEN [tok |-> Token(LTE, <<"<", "=">>), l |-> readChar(readChar(l))]
           ELSE IF peekChar(l) = ">"
             THEN [tok |-> Token(NEQ, <<"<", ">">>), l |-> readChar(readChar(l))]
             ELSE [tok |-> Token(LT, <<"<">>), l |-> readChar(l)]
    [] l.ch = ">" ->
         IF peekChar(l) = "="
           THEN [tok |-> Token(GTE, <<">", "=">>), l |-> readChar(readChar(l))]
           ELSE [tok |-> Token(GT, <<">">>), l |-> readChar(l)]
    [] l.ch = "\"" ->
         The({ IF ~r.ok
                 THEN [tok |-> Token(ILLEGAL, UnterminatedString), l |-> r.l]
                 ELSE [tok |-> Token(STR, r.s), l |-> r.l] :
               r \in {readString(l)} })
    [] OTHER ->
         IF isLetter(l.ch)
           THEN The({ [tok |-> Token(LookupIdent(r.s), ToUpper(r.s)), l |-> r.l] :
                      r \in {readIdentifier(l)} })
           ELSE IF isDigit(l.ch)
             THEN The({ [tok |-> Token(NUMBER, r.s), l |-> r.l] :
                        r \in {readNumber(l)} })
             ELSE [tok |-> Token(ILLEGAL, <<l.ch>>), l |-> readChar(l)]

\* NextToken returns the token and the lexer after the call
NextToken(l0) == The({ scanToken(l) : l \in {skipWhitespace(l0)} })

(***************************************************************************)
(* float64 values as exact rationals, and the strconv conversions.         *)
(***************************************************************************)
Abs(i) == IF i < 0 THEN -i ELSE i

RECURSIVE Gcd(_, _)
Gcd(a, b) == IF b = 0 THEN a ELSE Gcd(b, a % b)

\* the float64 n/d (d # 0), in lowest terms with a positive denominator
Rat(n, d) ==
  LET g == Gcd(Abs(n), Abs(d))
      s == IF d < 0 THEN -1 ELSE 1
  IN  [n |-> (s * n) \div g, d |-> (s * d) \div g]

Zero == Rat(0, 1)

RatAdd(a, b) == Rat(a.n * b.d + b.n * a.d, a.d * b.d)
RatSub(a, b) == Rat(a.n * b.d - b.n * a.d, a.d * b.d)
RatMul(a, b) == Rat(a.n * b.n, a.d * b.d)
RatDiv(a, b) == Rat(a.n * b.d, a.d * b.n)
RatNeg(a)    == Rat(-a.n, a.d)
RatLess(a, b) == a.n * b.d < b.n * a.d

RECURSIVE Pow10(_)
Pow10(k) == IF k = 0 THEN 1 ELSE 10 * Pow10(k - 1)

\* the value of a string of decimal digits
RECURSIVE DigitsVal(_)
DigitsVal(s) ==
  IF s = <<>> THEN 0
  ELSE 10 * DigitsVal(SubSeq(s, 1, Len(s) - 1)) + DigitVal(s[Len(s)])

AllDigits(s) == \A i \in 1..Len(s) : isDigit(s[i])

\* strconv.ParseFloat(s, 64) on the decimal forms [sign] digits [. digits];
\* exponent, hexadecimal, "inf" and "nan" forms need letters or '_' inside a
\* number and are kept out of the inputs of the model
ParseFloat(s) ==
  LET signed == Len(s) > 0 /\ s[1] \in {"+", "-"}
      body   == IF signed THEN SubSeq(s, 2, Len(s)) ELSE s
      dots   == { i \in 1..Len(body) : body[i] = "." }
      ip     == IF dots = {} THEN body
                ELSE SubSeq(body, 1, (CHOOSE i \in dots : TRUE) - 1)
      fp     == IF dots = {} THEN <<>>
                ELSE SubSeq(body, (CHOOSE i \in dots : TRUE) + 1, Len(body))
      ok     == /\ Cardinality(dots) <= 1
                /\ AllDigits(ip) /\ AllDigits(fp)
                /\ Len(ip) + Len(fp) > 0
      mag    == Rat(DigitsVal(ip) * Pow10(Len(fp)) + DigitsVal(fp), Pow10(Len(fp)))
  IN  IF ~ok THEN [ok |-> FALSE, v |-> Zero]
      ELSE [ok |-> TRUE,
            v |-> IF signed /\ s[1] = "-" THEN RatNeg(mag) ELSE mag]

\* strconv.Atoi(s): [sign] digits (values beyond the int range are outside
\* the model); err is nil or the error, its format followed by its arguments
Atoi(s) ==
  LET signed == Len(s) > 0 /\ s[1] \in {"+", "-"}
      body   == IF signed THEN SubSeq(s, 2, Len(s)) ELSE s
  IN  IF Len(body) = 0 \/ ~AllDigits(body)
        THEN [ok |-> FALSE, n |-> 0,
              err |-> <<"strconv.Atoi: parsing %q: invalid syntax", s>>]
        ELSE [ok |-> TRUE, err |-> <<>>,
              n |-> IF signed /\ s[1] = "-" THEN -DigitsVal(body) ELSE DigitsVal(body)]

\* main.go parseIntStrict
parseIntStrict(s) ==
  IF "," \in Range(s) THEN [ok |-> FALSE, n |-> 0, err |-> <<"must be integer">>]
  ELSE Atoi(s)

(***************************************************************************)
(* AST (ast.go).                                                           *)
(***************************************************************************)
RemStmt == [node |-> "RemStmt"]
LetStmt(name, expr) == [node |-> "LetStmt", Name |-> name, Expr |-> expr]
PrintStmt(exprs) == [node |-> "PrintStmt", Exprs |-> exprs]
InputStmt(name) == [node |-> "InputStmt", Name |-> name]
IfStmt(cond, thenStmt, thenLine, hasLine) ==
  [node |-> "IfStmt", Cond |-> cond, ThenStmt |-> thenStmt,
   ThenLine |-> thenLine, HasLine |-> hasLine]
GotoStmt(line) == [node |-> "GotoStmt", Line |-> line]
EndStmt == [node |-> "EndStmt"]

NumberLit(v) == [node |-> "NumberLit", Value |-> v]
StringLit(v) == [node |-> "StringLit", Value |-> v]
VarRef(name) == [node |-> "VarRef", Name |-> name]
UnaryExpr(op, rhs) == [node |-> "UnaryExpr", Op |-> op, Rhs |-> rhs]
BinaryExpr(op, lhs, rhs) ==
  [node |-> "BinaryExpr", Op |-> op, Lhs |-> lhs, Rhs |-> rhs]

(***************************************************************************)
(* Parser (the parser file of the interpreter).  Every parse function      *)
(* returns the parser after the call (p) and its result (v).               *)
(***************************************************************************)
LOWEST  == 1
COMPARE == 2
SUM     == 3
PRODUCT == 4
PREFIX  == 5

\* a variant in which * and / bind no tighter than + and -
precedencesFlat ==
  (ASSIGN :> COMPARE) @@ (NEQ :> COMPARE) @@ (LT :> COMPARE) @@
  (LTE :> COMPARE) @@ (GT :> COMPARE) @@ (GTE :> COMPARE) @@
  (PLUS :> SUM) @@ (MINUS :> SUM) @@ (ASTER :> SUM) @@ (SLASH :> SUM)

precedences ==
  (ASSIGN :> COMPARE) @@ (NEQ :> COMPARE) @@ (LT :> COMPARE) @@
  (LTE :> COMPARE) @@ (GT :> COMPARE) @@ (GTE :> COMPARE) @@
  (PLUS :> SUM) @@ (MINUS :> SUM) @@ (ASTER :> PRODUCT) @@ (SLASH :> PRODUCT)

nextToken(p0) ==
  The({ The({ [p EXCEPT !.curTok = p.peekTok, !.peekTok = r.tok, !.l = r.l] :
              r \in {NextToken(p.l)} }) :
        p \in {p0} })

NewParser(src) ==
  nextToken(nextToken([l |-> NewLexer(src), curTok |-> Token(NUL, <<>>),
                       peekTok |-> Token(NUL, <<>>), errors |-> <<>>]))

Errors(p) == p.errors

\* an error message is its format string followed by its arguments
addErr(p, msg) == [p EXCEPT !.errors = Append(@, msg)]

peekPrecedence(p) ==
  IF p.peekTok.Type \in DOMAIN precedences
    THEN precedences[p.peekTok.Type] ELSE LOWEST

curPrecedence(p) ==
  IF p.curTok.Type \in DOMAIN precedences
    THEN precedences[p.curTok.Type] ELSE LOWEST

Ret(p, v) == [p |-> p, v |-> v]

InfixTokens == {PLUS, MINUS, ASTER, SLASH, ASSIGN, NEQ, LT, LTE, GT, GTE}

RECURSIVE parseExpr(_, _)
RECURSIVE parseExprLoop(_, _, _)
RECURSIVE parsePrefix(_)
RECURSIVE parseInfix(_, _)

parseExpr(p, pr) ==
  The({ IF r.v = Nil THEN Ret(r.p, Nil) ELSE parseExprLoop(r.p, r.v, pr) :
        r \in {parsePrefix(p)} })

\* the for loop of parseExpr
parseExprLoop(p, left, pr) ==
  IF p.peekTok.Type # EOF /\ pr < peekPrecedence(p)
    THEN IF p.peekTok.Type \in InfixTokens
           THEN The({ IF r.v = Nil THEN Ret(r.p, Nil)
                      ELSE parseExprLoop(r.p, r.v, pr) :
                      r \in {parseInfix(nextToken(p), left)} })
           ELSE Ret(p, left)
    ELSE Ret(p, left)

\* case NUMBER of parsePrefix, f the result of strconv.ParseFloat
parseNumber(p, f) ==
  IF ~f.ok
    THEN Ret(addErr(p, <<"invalid number %q", p.curTok.Literal>>), Nil)
    ELSE Ret(p, NumberLit(f.v))

\* a variant that records the missing ')' and still returns the expression
parseParenLenient(r) ==
  IF r.v = Nil THEN Ret(r.p, Nil)
  ELSE IF r.p.peekTok.Type # RPAREN
    THEN Ret(addErr(r.p, <<"expexted ')'">>), r.v)
    ELSE Ret(nextToken(r.p), r.v)

\* case LPAREN of parsePrefix, r the result of parseExpr
parseParen(r) ==
  IF r.v = Nil THEN Ret(r.p, Nil)
  ELSE IF r.p.peekTok.Type # RPAREN
    THEN Ret(addErr(r.p, <<"expexted ')'">>), Nil)
    ELSE Ret(nextToken(r.p), r.v)

parsePrefix(p0) ==
  The({
    CASE p.curTok.Type = NUMBER ->
           The({ parseNumber(p, f) : f \in {ParseFloat(p.curTok.Literal)} })
      [] p.curTok.Type = STR -> Ret(p, StringLit(p.curTok.Literal))
      [] p.curTok.Type = IDENT -> Ret(p, VarRef(p.curTok.Literal))
      [] p.curTok.Type \in {PLUS, MINUS} ->
           The({ IF r.v = Nil THEN Ret(r.p, Nil)
                 ELSE Ret(r.p, UnaryExpr(p.curTok.Literal, r.v)) :
                 r \in {parseExpr(nextToken(p), PREFIX)} })
      [] p.curTok.Type = LPAREN ->
           The({ parseParen(r) : r \in {parseExpr(nextToken(p), LOWEST)} })
      [] OTHER ->
           Ret(addErr(p, <<"unexpected token in expression: %s", p.curTok.Type>>), Nil)
    : p \in {p0} })

parseInfix(p0, left) ==
  The({ The({ IF r.v = Nil THEN Ret(r.p, Nil)
              ELSE Ret(r.p, BinaryExpr(p.curTok.Literal, left, r.v)) :
              r \in {parseExpr(nextToken(p), curPrecedence(p))} }) :
        p \in {p0} })

\* parseLetStmt once the optional LET has been passed
parseLetBody(p, hasLET) ==
  IF p.curTok.Type # IDENT
    THEN Ret(addErr(p, IF hasLET THEN <<"LET requires identifier">>
                                 ELSE <<"assignment requires identifier">>), Nil)
  ELSE IF p.peekTok.Type # ASSIGN
    THEN Ret(addErr(p, <<"expected '=' after identifier">>), Nil)
  ELSE The({ IF r.v = Nil THEN Ret(r.p, Nil)
             ELSE Ret(r.p, LetStmt(p.curTok.Literal, r.v)) :
             r \in {parseExpr(nextToken(nextToken(p)), LOWEST)} })

parseLetStmt(p0, hasLET) ==
  The({ parseLetBody(p, hasLET) : p \in {IF hasLET THEN nextToken(p0) ELSE p0} })

\* the for loop of parsePrintStmt
RECURSIVE parsePrintRest(_, _)
parsePrintRest(p, exprs) ==
  IF p.peekTok.Type = COMMA
    THEN The({ IF r.v = Nil THEN Ret(r.p, Nil)
               ELSE parsePrintRest(r.p, Append(exprs, r.v)) :
               r \in {parseExpr(nextToken(nextToken(p)), LOWEST)} })
    ELSE Ret(p, PrintStmt(exprs))

parsePrintStmt(p) ==
  IF p.peekTok.Type = EOF THEN Ret(p, PrintStmt(<<>>))
  ELSE The({ IF r.v = Nil THEN Ret(r.p, Nil)
             ELSE parsePrintRest(r.p, <<r.v>>) :
             r \in {parseExpr(nextToken(p), LOWEST)} })

parseInputStmt(p0) ==
  The({ IF p.curTok.Type # IDENT
          THEN Ret(addErr(p, <<"INPUT requires identifier">>), Nil)
          ELSE Ret(p, InputStmt(p.curTok.Literal)) :
        p \in {nextToken(p0)} })

\* parseGotoStmt on a NUMBER token, a the result of parseIntStrict
parseGotoLine(p, a) ==
  IF ~a.ok
    THEN Ret(addErr(p, <<"invalid GOTO line number: %v", a.err>>), Nil)
    ELSE Ret(p, GotoStmt(a.n))

parseGotoStmt(p0) ==
  The({ IF p.curTok.Type # NUMBER
          THEN Ret(addErr(p, <<"GOTO requires line number">>), Nil)
          ELSE The({ parseGotoLine(p, a) : a \in {parseIntStrict(p.curTok.Literal)} }) :
        p \in {nextToken(p0)} })

RECURSIVE ParseStatement(_)
RECURSIVE parseIfStmt(_)

\* the jump-target form of parseIfStmt, a the result of parseIntStrict
parseThenLine(p, cond, a) ==
  IF ~a.ok
    THEN Ret(addErr(p, <<"invalid line number after THEN: %v", a.err>>), Nil)
    ELSE Ret(p, IfStmt(cond, Nil, a.n, TRUE))

\* parseIfStmt after its nextToken past the condition: curTok is then THEN
\* and peekTok the token after it
RECURSIVE parseThen(_, _)
parseThen(p, cond) ==
  IF p.curTok.Type = NUMBER /\ p.peekTok.Type = EOF
    THEN The({ parseThenLine(p, cond, a) : a \in {parseIntStrict(p.curTok.Literal)} })
    ELSE The({ IF t.v = Nil THEN Ret(t.p, Nil)
               ELSE Ret(t.p, IfStmt(cond, t.v, 0, FALSE)) :
               t \in {ParseStatement(p)} })

parseIfStmt(p0) ==
  The({ IF c.v = Nil THEN Ret(c.p, Nil)
        ELSE IF c.p.peekTok.Type # "THEN"
          THEN Ret(addErr(c.p, <<"THEN requires statement or line number">>), Nil)
          ELSE The({ parseThen(p, c.v) : p \in {nextToken(c.p)} }) :
        c \in {parseExpr(nextToken(p0), LOWEST)} })

ParseStatement(p0) ==
  The({
    CASE p.curTok.Type = "REM" -> Ret(p, RemStmt)
      [] p.curTok.Type = "LET" -> parseLetStmt(p, TRUE)
      [] p.curTok.Type = IDENT ->
           IF p.peekTok.Type = ASSIGN THEN parseLetStmt(p, FALSE)
           ELSE Ret(addErr(p, <<"unexpected identifier %q", p.curTok.Literal>>), Nil)
      [] p.curTok.Type = "PRINT" -> parsePrintStmt(p)
      [] p.curTok.Type = "INPUT" -> parseInputStmt(p)
      [] p.curTok.Type = "IF" -> parseIfStmt(p)
      [] p.curTok.Type = "GOTO" -> parseGotoStmt(p)
      [] p.curTok.Type = "END" -> Ret(p, EndStmt)
      [] OTHER -> Ret(addErr(p, <<"unexpected token %s", p.curTok.Type>>), Nil)
    : p \in {p0} })

\* main.go parseOneStatement: the statement and the error list
parseOneStatement(src) ==
  The({ IF r.v = Nil THEN [stmt |-> Nil, errs |-> Errors(r.p)]
        ELSE IF Len(Errors(r.p)) > 0 THEN [stmt |-> Nil, errs |-> Errors(r.p)]
        ELSE [stmt |-> r.v, errs |-> <<>>] :
        r \in {ParseStatement(NewParser(src))} })

(***************************************************************************)
(* strconv.FormatFloat(v, 'g', -1, 64), for values with a finite decimal   *)
(* expansion (the shortest digits that round-trip are then the exact       *)
(* digits).  digs is the digit string without trailing zeros and dp the    *)
(* position of the decimal point in it, as in strconv's decimalSlice.      *)
(***************************************************************************)
RECURSIVE IntToDigits(_)
IntToDigits(m) ==
  IF m < 10 THEN <<DigitChars[m + 1]>>
  ELSE Append(IntToDigits(m \div 10), DigitChars[(m % 10) + 1])

RECURSIVE StripTrailingZeros(_)
StripTrailingZeros(s) ==
  IF Len(s) > 0 /\ s[Len(s)] = "0"
    THEN StripTrailingZeros(SubSeq(s, 1, Len(s) - 1)) ELSE s

\* the least k with d dividing 10^k; a value without a finite decimal
\* expansion (1/3) has none, is cut after MaxDecimals places here, and is
\* not produced by the programs of the model
MaxDecimals == 8

RECURSIVE DecimalPlaces(_, _)
DecimalPlaces(d, k) ==
  IF Pow10(k) % d = 0 \/ k = MaxDecimals THEN k ELSE DecimalPlaces(d, k + 1)

Max(a, b) == IF a > b THEN a ELSE b

Zeros(k) == [i \in 1..k |-> "0"]

\* %e: d.ddde±dd
fmtE(digs, dp) ==
  LET nd   == Len(digs)
      exp  == dp - 1
      mant == IF nd > 1 THEN <<digs[1], ".">> \o SubSeq(digs, 2, nd) ELSE <<digs[1]>>
      ed   == IntToDigits(Abs(exp))
  IN  mant \o <<"e", IF exp < 0 THEN "-" ELSE "+">> \o
      (IF Len(ed) < 2 THEN <<"0">> \o ed ELSE ed)

\* %f with the shortest precision max(nd - dp, 0)
fmtF(digs, dp) ==
  LET nd   == Len(digs)
      prec == Max(nd - dp, 0)
      int  == IF dp > 0
                THEN SubSeq(digs, 1, IF dp < nd THEN dp ELSE nd) \o Zeros(Max(dp - nd, 0))
                ELSE <<"0">>
      frac == [i \in 1..prec |->
                 IF dp + i >= 1 /\ dp + i <= nd THEN digs[dp + i] ELSE "0"]
  IN  IF prec > 0 THEN int \o <<".">> \o frac ELSE int

FormatFloat(v) ==
  LET k    == DecimalPlaces(v.d, 0)
      m    == (Abs(v.n) * Pow10(k)) \div v.d
      all  == IntToDigits(m)
      digs == IF m = 0 THEN <<>> ELSE StripTrailingZeros(all)
      dp   == IF m = 0 THEN 0 ELSE Len(all) - k
      exp  == dp - 1
      body == IF exp < -4 \/ exp >= 6 THEN fmtE(digs, dp) ELSE fmtF(digs, dp)
  IN  IF v.n < 0 THEN <<"-">> \o body ELSE body

(***************************************************************************)
(* Values and the environment (runtime.go).                                *)
(***************************************************************************)
ValNumber == 0
ValString == 1

NumberValue(n) == [Kind |-> ValNumber, Num |-> n, Str |-> <<>>]
StringValue(s) == [Kind |-> ValString, Num |-> Zero, Str |-> s]

\* Value{}
ZeroValue == [Kind |-> ValNumber, Num |-> Zero, Str |-> <<>>]

\* Value.String
ValueString(v) ==
  CASE v.Kind = ValNumber -> FormatFloat(v.Num)
    [] v.Kind = ValString -> v.Str
    [] OTHER -> <<"<", "i", "n", "v", "a", "l", "i", "d", ">">>

\* a nil error; an error is its format string followed by its arguments
NoErr == <<>>

EmptyMap == <<>>

NewEnv == [NumVars |-> EmptyMap, StrVars |-> EmptyMap]

\* m[k] of a Go map, zero when k is absent
MapGet(m, k, zero) == IF k \in DOMAIN m THEN m[k] ELSE zero

\* a variant that keeps no other key
MapSetAlone(m, k, v) == (k :> v)

\* m[k] = v
MapSet(m, k, v) == (k :> v) @@ m

\* delete(m, k)
MapDelete(m, k) == [x \in DOMAIN m \ {k} |-> m[x]]

\* a variant that looks the name up as it is written
EnvGetExact(e, name0) ==
  IF HasDollarSuffix(name0)
    THEN StringValue(MapGet(e.StrVars, name0, <<>>))
    ELSE NumberValue(MapGet(e.NumVars, name0, Zero))

\* Env.Get
EnvGet(e, name0) ==
  LET name == ToUpper(name0)
  IN  IF HasDollarSuffix(name)
        THEN StringValue(MapGet(e.StrVars, name, <<>>))
        ELSE NumberValue(MapGet(e.NumVars, name, Zero))

\* a variant that stores before it checks the kind
EnvSetEager(e, name0, v) ==
  LET name  == ToUpper(name0)
      isStr == HasDollarSuffix(name)
      e1    == IF isStr THEN [e EXCEPT !.StrVars = MapSet(@, name, v.Str)]
               ELSE [e EXCEPT !.NumVars = MapSet(@, name, v.Num)]
  IN  IF isStr /\ v.Kind # ValString
        THEN [err |-> <<"type mismatch: %s is string variable", name>>, Env |-> e1]
      ELSE IF ~isStr /\ v.Kind # ValNumber
        THEN [err |-> <<"type mismatch: %s is numeric variable", name>>, Env |-> e1]
      ELSE [err |-> NoErr, Env |-> e1]

\* Env.Set returns the error and the environment after the call
EnvSet(e, name0, v) ==
  LET name  == ToUpper(name0)
      isStr == HasDollarSuffix(name)
  IN  IF isStr /\ v.Kind # ValString
        THEN [err |-> <<"type mismatch: %s is string variable", name>>, Env |-> e]
      ELSE IF ~isStr /\ v.Kind # ValNumber
        THEN [err |-> <<"type mismatch: %s is numeric variable", name>>, Env |-> e]
      ELSE IF isStr
        THEN [err |-> NoErr, Env |-> [e EXCEPT !.StrVars = MapSet(@, name, v.Str)]]
        ELSE [err |-> NoErr, Env |-> [e EXCEPT !.NumVars = MapSet(@, name, v.Num)]]

(***************************************************************************)
(* Expression evaluation (runtime.go).  The result is the value (v) and    *)
(* the error (err).                                                        *)
(***************************************************************************)
Val(v) == [v |-> v, err |-> NoErr]
Fail(msg) == [v |-> ZeroValue, err |-> msg]

\* a variant in which true is -1
BoolValueMinusOne(ok) == IF ok THEN NumberValue(Rat(-1, 1)) ELSE NumberValue(Rat(0, 1))

\* if ok { return NumberValue(1), nil }; return NumberValue(0), nil
BoolValue(ok) == IF ok THEN NumberValue(Rat(1, 1)) ELSE NumberValue(Rat(0, 1))

\* the case ">=" of evalBinary: ok = l.Num > -r.Num
GteBySource(l, r) == RatLess(RatNeg(r), l)

evalBinary(op, l, r) ==
  CASE op \in {<<"+">>, <<"-">>, <<"*">>, <<"/">>} ->
         IF l.Kind # ValNumber \/ r.Kind # ValNumber
           THEN Fail(<<"arithmetic requires numbers">>)
         ELSE (CASE op = <<"+">> -> Val(NumberValue(RatAdd(l.Num, r.Num)))
                 [] op = <<"-">> -> Val(NumberValue(RatSub(l.Num, r.Num)))
                 [] op = <<"*">> -> Val(NumberValue(RatMul(l.Num, r.Num)))
                 [] op = <<"/">> ->
                      IF r.Num = Zero THEN Fail(<<"division by zero">>)
                      ELSE Val(NumberValue(RatDiv(l.Num, r.Num))))
    [] op \in {<<"=">>, <<"<", ">">>} ->
         IF l.Kind # r.Kind THEN Fail(<<"type mismatch in comparison">>)
         ELSE LET eq == IF l.Kind = ValNumber THEN l.Num = r.Num ELSE l.Str = r.Str
                  ok == IF op = <<"<", ">">> THEN ~eq ELSE eq
              IN  Val(BoolValue(ok))
    [] op \in {<<"<">>, <<"<", "=">>, <<">">>, <<">", "=">>} ->
         IF l.Kind # ValNumber \/ r.Kind # ValNumber
           THEN Fail(<<"ordered comparison requires numbers">>)
         ELSE LET ok == CASE op = <<"<">> -> RatLess(l.Num, r.Num)
                          [] op = <<"<", "=">> -> ~RatLess(r.Num, l.Num)
                          [] op = <<">">> -> RatLess(r.Num, l.Num)
                          [] op = <<">", "=">> -> GteBySource(l.Num, r.Num)
              IN  Val(BoolValue(ok))
    [] OTHER -> Fail(<<"unsupported operator %q", op>>)

RECURSIVE evalExpr(_, _)
evalExpr(env, e) ==
  CASE e.node = "NumberLit" -> Val(NumberValue(e.Value))
    [] e.node = "StringLit" -> Val(StringValue(e.Value))
    [] e.node = "VarRef" -> Val(EnvGet(env, e.Name))
    [] e.node = "UnaryExpr" ->
         The({ IF r.err # NoErr THEN Fail(r.err)
               ELSE IF r.v.Kind # ValNumber
                 THEN Fail(<<"unary %s requires number", e.Op>>)
               ELSE (CASE e.Op = <<"+">> -> Val(r.v)
                       [] e.Op = <<"-">> -> Val(NumberValue(RatNeg(r.v.Num)))
                       [] OTHER -> Fail(<<"unsupported unary op %s", e.Op>>)) :
               r \in {evalExpr(env, e.Rhs)} })
    [] e.node = "BinaryExpr" ->
         The({ IF lv.err # NoErr THEN Fail(lv.err)
               ELSE The({ IF rv.err # NoErr THEN Fail(rv.err)
                          ELSE evalBinary(e.Op, lv.v, rv.v) :
                          rv \in {evalExpr(env, e.Rhs)} }) :
               lv \in {evalExpr(env, e.Lhs)} })
    [] OTHER -> Fail(<<"unknown expression type %l", e.node>>)

(***************************************************************************)
(* Program table (the program file of the interpreter).                    *)
(***************************************************************************)
NewProgram == [Source |-> EmptyMap, Stmts |-> EmptyMap]

Clear(p) == [p EXCEPT !.Source = EmptyMap, !.Stmts = EmptyMap]

\* a variant that starts a fresh table for the line
SetLineAlone(p, lineNo, src, stmt) ==
  [p EXCEPT !.Source = (lineNo :> src), !.Stmts = (lineNo :> stmt)]

SetLine(p, lineNo, src, stmt) ==
  [p EXCEPT !.Source = MapSet(@, lineNo, src), !.Stmts = MapSet(@, lineNo, stmt)]

\* a variant that forgets the statement map
DeleteLineSourceOnly(p, lineNo) == [p EXCEPT !.Source = MapDelete(@, lineNo)]

DeleteLine(p, lineNo) ==
  [p EXCEPT !.Source = MapDelete(@, lineNo), !.Stmts = MapDelete(@, lineNo)]

\* the orders in which a range over a Go map with key set S may visit S
KeyOrders(S) ==
  { f \in [1..Cardinality(S) -> S] : \A i, j \in DOMAIN f : i # j => f[i] # f[j] }

\* insert x into the ascending sequence s
RECURSIVE InsertSorted(_, _)
InsertSorted(s, x) ==
  IF s = <<>> THEN <<x>>
  ELSE IF x <= s[1] THEN <<x>> \o s
  ELSE <<s[1]>> \o InsertSorted(Tail(s), x)

\* a variant that leaves the keys as the range delivered them
SortIntsNone(s) == s

\* sort.Ints
RECURSIVE SortInts(_)
SortInts(s) ==
  IF s = <<>> THEN <<>>
  ELSE InsertSorted(SortInts(SubSeq(s, 1, Len(s) - 1)), s[Len(s)])

\* OrderedLines, keys being the order in which the range over p.Stmts ran
OrderedLines(p, keys) == SortInts(keys)

(***************************************************************************)
(* Statement execution (runtime.go).  An interpreter value it carries the  *)
(* fields a statement can touch: Env, In (the unread input) and Out (the   *)
(* strings written so far, one per Write).  execStmt returns nextPC, end,  *)
(* err and the interpreter after the call.                                 *)
(***************************************************************************)
Done(nextPC, end, err, it) ==
  [nextPC |-> nextPC, end |-> end, err |-> err, it |-> it]

Write(it, s) == [it EXCEPT !.Out = Append(@, s)]

\* strings.Join
RECURSIVE Join(_, _)
Join(parts, sep) ==
  IF parts = <<>> THEN <<>>
  ELSE IF Len(parts) = 1 THEN parts[1]
  ELSE parts[1] \o sep \o Join(Tail(parts), sep)

\* bufio.Reader.ReadString('\n'): the line, with its delimiter when there is
\* one, and the input left; at end of data the line is what was left
ReadString(in) ==
  LET nl == { i \in 1..Len(in) : in[i] = "\n" }
  IN  IF nl = {} THEN [line |-> in, rest |-> <<>>, eof |-> TRUE]
      ELSE LET i == CHOOSE k \in nl : \A m \in nl : k <= m
           IN  [line |-> SubSeq(in, 1, i), rest |-> SubSeq(in, i + 1, Len(in)),
                eof |-> FALSE]

\* strings.TrimRight(s, cutset)
RECURSIVE TrimRight(_, _)
TrimRight(s, cutset) ==
  IF Len(s) > 0 /\ s[Len(s)] \in cutset
    THEN TrimRight(SubSeq(s, 1, Len(s) - 1), cutset) ELSE s

RECURSIVE TrimLeft(_, _)
TrimLeft(s, cutset) ==
  IF Len(s) > 0 /\ s[1] \in cutset THEN TrimLeft(Tail(s), cutset) ELSE s

\* strings.TrimSpace
TrimSpace(s) ==
  LET ws == {" ", "\t", "\n", "\r"} IN TrimLeft(TrimRight(s, ws), ws)

\* a variant that loses the text variables at every store
execSetDropsText(w, pc, it) ==
  IF w.err # NoErr THEN Done(0, FALSE, w.err, [it EXCEPT !.Env = w.Env])
  ELSE Done(pc + 1, FALSE, NoErr,
            [it EXCEPT !.Env = [w.Env EXCEPT !.StrVars = EmptyMap]])

\* the end of case *LetStmt and case *InputStmt, w the result of Env.Set
execSet(w, pc, it) ==
  IF w.err # NoErr THEN Done(0, FALSE, w.err, [it EXCEPT !.Env = w.Env])
  ELSE Done(pc + 1, FALSE, NoErr, [it EXCEPT !.Env = w.Env])

\* case *LetStmt
execLet(s, pc, it) ==
  The({ IF r.err # NoErr THEN Done(0, FALSE, r.err, it)
        ELSE The({ execSet(w, pc, it) : w \in {EnvSet(it.Env, s.Name, r.v)} }) :
        r \in {evalExpr(it.Env, s.Expr)} })

\* the for loop of case *PrintStmt: the parts, or the first error
RECURSIVE printParts(_, _, _)
printParts(env, exprs, parts) ==
  IF exprs = <<>> THEN [parts |-> parts, err |-> NoErr]
  ELSE The({ IF r.err # NoErr THEN [parts |-> parts, err |-> r.err]
             ELSE printParts(env, Tail(exprs), Append(parts, ValueString(r.v))) :
             r \in {evalExpr(env, exprs[1])} })

\* a variant that writes each part as soon as it is evaluated
RECURSIVE execPrintEager(_, _, _)
execPrintEager(s, pc, it) ==
  IF s.Exprs = <<>> THEN Done(pc + 1, FALSE, NoErr, Write(it, <<"\n">>))
  ELSE The({ IF r.err # NoErr THEN Done(0, FALSE, r.err, it)
             ELSE execPrintEager(PrintStmt(Tail(s.Exprs)), pc,
                                 Write(it, ValueString(r.v))) :
             r \in {evalExpr(it.Env, s.Exprs[1])} })

\* case *PrintStmt
execPrint(s, pc, it) ==
  IF Len(s.Exprs) = 0 THEN Done(pc + 1, FALSE, NoErr, Write(it, <<"\n">>))
  ELSE The({ IF r.err # NoErr THEN Done(0, FALSE, r.err, it)
             ELSE Done(pc + 1, FALSE, NoErr,
                       Write(it, Join(r.parts, <<" ">>) \o <<"\n">>)) :
             r \in {printParts(it.Env, s.Exprs, <<>>)} })

\* a variant that reads a line that is no number as 0
execInputLineZero(s, pc, it2, line) ==
  IF HasDollarSuffix(ToUpper(s.Name))
    THEN The({ execSet(w, pc, it2) : w \in {EnvSet(it2.Env, s.Name, StringValue(line))} })
    ELSE The({ The({ execSet(w, pc, it2) :
                     w \in {EnvSet(it2.Env, s.Name,
                                   NumberValue(IF f.ok THEN f.v ELSE Zero))} }) :
               f \in {ParseFloat(TrimSpace(line))} })

\* case *InputStmt after the read: it2 has the prompt written and the line
\* consumed, line is the line without its end-of-line bytes
execInputLine(s, pc, it2, line) ==
  IF HasDollarSuffix(ToUpper(s.Name))
    THEN The({ execSet(w, pc, it2) : w \in {EnvSet(it2.Env, s.Name, StringValue(line))} })
    ELSE The({ IF ~f.ok THEN Done(0, FALSE, <<"INPUT expects number">>, it2)
               ELSE The({ execSet(w, pc, it2) :
                          w \in {EnvSet(it2.Env, s.Name, NumberValue(f.v))} }) :
               f \in {ParseFloat(TrimSpace(line))} })

\* case *InputStmt (a read fails only at end of data, which is not an error)
execInput(s, pc, it) ==
  The({ execInputLine(s, pc, [Write(it, <<"?", " ">>) EXCEPT !.In = rd.rest],
                      TrimRight(rd.line, {"\r", "\n"})) :
        rd \in {ReadString(it.In)} })

\* a variant that treats an undefined target as a no-op
jumpToSkip(lineIndex, line, pc, it) ==
  IF line \notin DOMAIN lineIndex THEN Done(pc + 1, FALSE, NoErr, it)
  ELSE Done(lineIndex[line], FALSE, NoErr, it)

\* idx, ok := lineIndex[line], of case *GotoStmt and of the THEN n form
jumpTo(lineIndex, line, pc, it) ==
  IF line \notin DOMAIN lineIndex
    THEN Done(0, FALSE, <<"undefined line %d", line>>, it)
    ELSE Done(lineIndex[line], FALSE, NoErr, it)

\* a variant that returns no termination signal
execEndNoSignal(it) == Done(0, FALSE, NoErr, it)

\* case *EndStmt
execEnd(it) == Done(0, TRUE, NoErr, it)

RECURSIVE execStmt(_, _, _, _, _)

\* a variant that resolves the THEN line before it tests the condition
execIfEager(stmt, c, lineNo, lineIndex, pc, it) ==
  IF c.err # NoErr THEN Done(0, FALSE, c.err, it)
  ELSE IF c.v.Kind # ValNumber
    THEN Done(0, FALSE, <<"IF condition must be numeric">>, it)
  ELSE IF stmt.HasLine /\ stmt.ThenLine \notin DOMAIN lineIndex
    THEN jumpTo(lineIndex, stmt.ThenLine, pc, it)
  ELSE IF c.v.Num = Zero THEN Done(pc + 1, FALSE, NoErr, it)
  ELSE IF stmt.HasLine THEN jumpTo(lineIndex, stmt.ThenLine, pc, it)
  ELSE execStmt(stmt.ThenStmt, lineNo, lineIndex, pc, it)

\* case *IfStmt, c the result of evalExpr(s.Cond)
execIf(stmt, c, lineNo, lineIndex, pc, it) ==
  IF c.err # NoErr THEN Done(0, FALSE, c.err, it)
  ELSE IF c.v.Kind # ValNumber
    THEN Done(0, FALSE, <<"IF condition must be numeric">>, it)
  ELSE IF c.v.Num = Zero THEN Done(pc + 1, FALSE, NoErr, it)
  ELSE IF stmt.HasLine THEN jumpTo(lineIndex, stmt.ThenLine, pc, it)
  ELSE execStmt(stmt.ThenStmt, lineNo, lineIndex, pc, it)

execStmt(stmt, lineNo, lineIndex, pc, it) ==
  CASE stmt.node = "RemStmt" -> Done(pc + 1, FALSE, NoErr, it)
    [] stmt.node = "LetStmt" -> execLet(stmt, pc, it)
    [] stmt.node = "PrintStmt" -> execPrint(stmt, pc, it)
    [] stmt.node = "InputStmt" -> execInput(stmt, pc, it)
    [] stmt.node = "IfStmt" ->
         The({ execIf(stmt, c, lineNo, lineIndex, pc, it) :
               c \in {evalExpr(it.Env, stmt.Cond)} })
    [] stmt.node = "GotoStmt" -> jumpTo(lineIndex, stmt.Line, pc, it)
    [] stmt.node = "EndStmt" -> execEnd(it)
    [] OTHER -> Done(0, FALSE, <<"unknown statement type %T", stmt.node>>, it)

(***************************************************************************)
(* The session: main's REPL commands on the program table, LIST, RUN, and  *)
(* the loop of Interpreter.Run taken one iteration at a time.              *)
(***************************************************************************)
VARIABLES
  Prog,       \* main's prog, shared with the interpreter
  it,         \* the interpreter: Env, In, Out, MaxOps
  order,      \* Run's order
  lineIndex,  \* Run's lineIndex
  pc,         \* Run's pc
  ops,        \* Run's ops
  state,      \* "ready" (at the prompt), "done" (an edit or LIST has just
              \* finished), "running" or "returned" (Run has returned)
  result,     \* the error Run returned
  last,       \* the edit or LIST just finished, with its arguments
  listing,    \* the lines LIST printed: <<line number, source text>>
  hist,       \* history of the current run: the lines executed in order,
              \* whether a jump was taken, whether END was executed, and
              \* the input the run was given
  prev,       \* history, output and result of the run before a re-run
  ev,         \* the evaluation of one binary operator (SpecEval)
  ps,         \* the parse of one statement (SpecParse, SpecStmt, SpecText)
  en,         \* one environment and the calls made on it (SpecEnv)
  lx,         \* one lexer and the tokens it returned (SpecLex)
  ex          \* the execution of one IF statement (SpecExec)

runVars ==
  <<Prog, it, order, lineIndex, pc, ops, state, result, last, listing, hist, prev>>

vars == <<runVars, ev, ps, en, lx, ex>>

\* the line numbers of the session are 10, 20, ..., 10 * NumLines
NumLines == 3
Lines == { 10 * i : i \in 1..NumLines }

\* the step budget NewInterpreter sets (1_000_000 in the source)
MaxOps == 5

NameX == <<"X">>
Lit(i) == NumberLit(Rat(i, 1))

\* the statements of the session, each with its source text
Pool ==
  <<
    [src  |-> <<"R", "E", "M">>,
     stmt |-> RemStmt],
    [src  |-> <<"L", "E", "T", " ", "X", " ", "=", " ", "X", " ", "+", " ", "1">>,
     stmt |-> LetStmt(NameX, BinaryExpr(<<"+">>, VarRef(NameX), Lit(1)))],
    [src  |-> <<"L", "E", "T", " ", "X", " ", "=", " ", "\"", "A", "\"">>,
     stmt |-> LetStmt(NameX, StringLit(<<"A">>))],
    [src  |-> <<"P", "R", "I", "N", "T", " ", "X">>,
     stmt |-> PrintStmt(<<VarRef(NameX)>>)],
    [src  |-> <<"P", "R", "I", "N", "T", " ", "X", ",", " ", "1", " ", "/", " ", "0">>,
     stmt |-> PrintStmt(<<VarRef(NameX), BinaryExpr(<<"/">>, Lit(1), Lit(0))>>)],
    [src  |-> <<"P", "R", "I", "N", "T", " ", "1", " ", "/", " ", "0">>,
     stmt |-> PrintStmt(<<BinaryExpr(<<"/">>, Lit(1), Lit(0))>>)],
    [src  |-> <<"I", "N", "P", "U", "T", " ", "X">>,
     stmt |-> InputStmt(NameX)],
    [src  |-> <<"G", "O", "T", "O", " ", "3", "0">>,
     stmt |-> GotoStmt(30)],
    [src  |-> <<"I", "F", " ", "X", " ", "<", " ", "2", " ", "T", "H", "E", "N", " ", "1", "0">>,
     stmt |-> IfStmt(BinaryExpr(<<"<">>, VarRef(NameX), Lit(2)), Nil, 10, TRUE)],
    [src  |-> <<"E", "N", "D">>,
     stmt |-> EndStmt]
  >>

\* what the input holds when a run starts
Tapes == { <<"5", "\n">>, <<"Q", "\n">> }

NewInterpreter(in, out) ==
  [Env |-> NewEnv, In |-> in, Out |-> out, MaxOps |-> MaxOps]

\* a variant that keeps the environment
ResetEnvKeep(i) == i

ResetEnv(i) == [i EXCEPT !.Env = NewEnv]

NoInterpreter == [Env |-> NewEnv, In |-> <<>>, Out |-> <<>>, MaxOps |-> 0]
NoHist == [trace |-> <<>>, jumped |-> FALSE, ended |-> FALSE, tape |-> <<>>]
NoPrev == [run |-> FALSE, hist |-> NoHist, out |-> <<>>, result |-> NoErr]
NoCmd == [cmd |-> "none", line |-> 0, src |-> <<>>, stmt |-> Nil]
NoEval == [phase |-> "off"]
NoParse == [phase |-> "off"]

NoEnvCalls == [phase |-> "off"]

NoLex == [phase |-> "off"]

NoExec == [phase |-> "off"]

\* the locals of Run and the interpreter of the last RUN are gone
DropRun ==
  /\ it' = NoInterpreter
  /\ order' = <<>>
  /\ lineIndex' = EmptyMap
  /\ pc' = 0
  /\ ops' = 0
  /\ result' = NoErr
  /\ hist' = NoHist
  /\ prev' = NoPrev

\* a numbered line with a statement: prog.SetLine(lineNo, rest, stmt)
SetLineCmd ==
  /\ state = "ready"
  /\ \E ln \in Lines, i \in 1..Len(Pool) :
       /\ Prog' = SetLine(Prog, ln, Pool[i].src, Pool[i].stmt)
       /\ last' = [cmd |-> "SetLine", line |-> ln, src |-> Pool[i].src,
                   stmt |-> Pool[i].stmt]
  /\ state' = "done"
  /\ UNCHANGED <<it, order, lineIndex, pc, ops, result, listing, hist, prev, ev, ps, en, lx, ex>>

\* a bare line number: prog.DeleteLine(lineNo)
DeleteLineCmd ==
  /\ state = "ready"
  /\ \E ln \in Lines :
       /\ Prog' = DeleteLine(Prog, ln)
       /\ last' = [NoCmd EXCEPT !.cmd = "DeleteLine", !.line = ln]
  /\ state' = "done"
  /\ UNCHANGED <<it, order, lineIndex, pc, ops, result, listing, hist, prev, ev, ps, en, lx, ex>>

\* NEW: prog.Clear()
NewCmd ==
  /\ state = "ready"
  /\ Prog' = Clear(Prog)
  /\ last' = [NoCmd EXCEPT !.cmd = "NEW"]
  /\ state' = "done"
  /\ UNCHANGED <<it, order, lineIndex, pc, ops, result, listing, hist, prev, ev, ps, en, lx, ex>>

\* LIST: for _, ln := range prog.OrderedLines() { print ln, prog.Source[ln] }
ListCmd ==
  /\ state = "ready"
  /\ \E keys \in KeyOrders(DOMAIN Prog.Stmts) :
       LET ord == OrderedLines(Prog, keys)
       IN  listing' = [i \in 1..Len(ord) |-> <<ord[i], MapGet(Prog.Source, ord[i], <<>>)>>]
  /\ last' = [NoCmd EXCEPT !.cmd = "LIST"]
  /\ state' = "done"
  /\ UNCHANGED <<Prog, it, order, lineIndex, pc, ops, result, hist, prev, ev, ps, en, lx, ex>>

\* a variant that counts the lines from one
RECURSIVE buildLineIndexFromOne(_, _, _)
buildLineIndexFromOne(ord, i, m) ==
  IF i >= Len(ord) THEN m
  ELSE buildLineIndexFromOne(ord, i + 1, MapSet(m, ord[i + 1], i + 1))

\* for i, ln := range order { lineIndex[ln] = i }
RECURSIVE buildLineIndex(_, _, _)
buildLineIndex(ord, i, m) ==
  IF i >= Len(ord) THEN m
  ELSE buildLineIndex(ord, i + 1, MapSet(m, ord[i + 1], i))

\* Run up to its loop, on the interpreter i
RunBegin(i, tape, keys) ==
  LET ord == OrderedLines(Prog, keys)
  IN  /\ it' = i
      /\ order' = ord
      /\ pc' = 0
      /\ ops' = 0
      /\ result' = NoErr
      /\ hist' = [NoHist EXCEPT !.tape = tape]
      /\ IF Len(ord) = 0
           THEN lineIndex' = EmptyMap /\ state' = "returned"
           ELSE lineIndex' = buildLineIndex(ord, 0, EmptyMap) /\ state' = "running"
      /\ UNCHANGED <<Prog, last, listing, ev, ps, en, lx, ex>>

\* RUN: it := NewInterpreter(prog, reader, os.Stdout); it.ResetEnv(); it.Run()
RunCmd ==
  /\ state = "ready"
  /\ \E tape \in Tapes, keys \in KeyOrders(DOMAIN Prog.Stmts) :
       RunBegin(ResetEnv(NewInterpreter(tape, <<>>)), tape, keys)
  /\ prev' = NoPrev

\* the execution trigger again on the live interpreter, given the same
\* input once more and an empty output: it.ResetEnv(); it.Run()
ReRun ==
  /\ state = "returned"
  /\ \E keys \in KeyOrders(DOMAIN Prog.Stmts) :
       RunBegin(ResetEnv([it EXCEPT !.In = hist.tape, !.Out = <<>>]), hist.tape, keys)
  /\ prev' = [run |-> TRUE, hist |-> hist, out |-> it.Out, result |-> result]

OpLimitErr ==
  <<"runtime error: operation limit exceeded (possible infinite loop)">>

\* a variant that leaves the line number out
RuntimeErrNoLine(lineNo, err) == <<"runtime error: %w", err>>

\* fmt.Errorf("runtime error at line %d: %w", lineNo, err)
RuntimeErr(lineNo, err) == <<"runtime error at line %d: %w", lineNo, err>>

\* a variant that lets one more statement through
OverBudgetLate(n, max) == max > 0 /\ n > max + 1

\* ops > it.MaxOps, when the budget is on
OverBudget(n, max) == max > 0 /\ n > max

\* whether executing stmt in env takes a jump (history only)
RECURSIVE TakesJump(_, _)
TakesJump(stmt, env) ==
  CASE stmt.node = "GotoStmt" -> TRUE
    [] stmt.node = "IfStmt" ->
         LET c == evalExpr(env, stmt.Cond)
         IN  /\ c.err = NoErr /\ c.v.Kind = ValNumber /\ c.v.Num # Zero
             /\ (stmt.HasLine \/ TakesJump(stmt.ThenStmt, env))
    [] OTHER -> FALSE

\* one iteration of the loop of Run
RunStep ==
  /\ state = "running"
  /\ LET ops1 == IF it.MaxOps > 0 THEN ops + 1 ELSE ops
     IN  /\ ops' = ops1
         /\ IF OverBudget(ops1, it.MaxOps)
              THEN /\ state' = "returned"
                   /\ result' = OpLimitErr
                   /\ UNCHANGED <<it, pc, hist>>
              ELSE LET lineNo == order[pc + 1]
                       stmt   == Prog.Stmts[lineNo]
                   IN  \E r \in {execStmt(stmt, lineNo, lineIndex, pc, it)} :
                       /\ it' = r.it
                       /\ hist' = [hist EXCEPT
                                     !.trace = Append(@, lineNo),
                                     !.jumped = @ \/ TakesJump(stmt, it.Env),
                                     !.ended = @ \/ (r.err = NoErr /\ r.end)]
                       /\ IF r.err # NoErr
                            THEN /\ state' = "returned"
                                 /\ result' = RuntimeErr(lineNo, r.err)
                                 /\ pc' = pc
                            ELSE IF r.end
                              THEN /\ state' = "returned"
                                   /\ result' = NoErr
                                   /\ pc' = pc
                              ELSE /\ pc' = r.nextPC
                                   /\ result' = NoErr
                                   /\ state' = IF r.nextPC >= 0 /\ r.nextPC < Len(order)
                                                 THEN "running" ELSE "returned"
  /\ UNCHANGED <<Prog, order, lineIndex, last, listing, prev, ev, ps, en, lx, ex>>

\* the case of the command ends (RUN prints the error, if any) and the REPL
\* prompts again
Prompt ==
  /\ state \in {"done", "returned"}
  /\ state' = "ready"
  /\ last' = NoCmd
  /\ listing' = <<>>
  /\ DropRun
  /\ UNCHANGED <<Prog, ev, ps, en, lx, ex>>

RunInit ==
  /\ Prog = NewProgram
  /\ it = NoInterpreter
  /\ order = <<>>
  /\ lineIndex = EmptyMap
  /\ pc = 0
  /\ ops = 0
  /\ state = "ready"
  /\ result = NoErr
  /\ last = NoCmd
  /\ listing = <<>>
  /\ hist = NoHist
  /\ prev = NoPrev

Init ==
  /\ RunInit
  /\ ev = NoEval /\ ps = NoParse /\ en = NoEnvCalls /\ lx = NoLex /\ ex = NoExec

Next ==
  \/ SetLineCmd
  \/ DeleteLineCmd
  \/ NewCmd
  \/ ListCmd
  \/ RunCmd
  \/ ReRun
  \/ RunStep
  \/ Prompt

Spec == Init /\ [][Next]_vars

\* an iteration of the loop of Run, seen on its counter alone (the budget of
\* the session is positive, so every iteration counts)
Iterate == state = "running" /\ ops' = ops + 1

\* Run is sequential code: while its loop condition holds the next iteration
\* is taken (each INPUT read returns)
FairSpec == Spec /\ WF_ops(Iterate)

(***************************************************************************)
(* Properties of the session.                                              *)
(***************************************************************************)
Last(s) == s[Len(s)]

\* the strictly ascending enumeration of a finite set of integers
Ascending(S) ==
  CHOOSE s \in [1..Cardinality(S) -> S] :
    \A i, j \in 1..Cardinality(S) : i < j => s[i] < s[j]

Running == state = "running"
Returned == state = "returned"
Executed == Len(hist.trace)
InRange == pc >= 0 /\ pc < Len(order)

\* the next iteration of Run executes a statement (the budget allows it)
WillExecute == Running /\ (it.MaxOps > 0 => Executed < it.MaxOps)
CurLine == order[pc + 1]
CurStmt == Prog.Stmts[CurLine]

\* C1: with a positive step budget B, Run terminates on every program (a run
\* that has started returns; every iteration of its loop adds one to ops, and
\* ops never passes B + 1); it executes at most B statements; a run whose
\* pointer is still in range after B executions returns the operation-limit
\* error instead of executing one more statement; and the budget aborts no
\* run before its B executions are spent (the aborted run had executed B
\* statements, none of them END, and its pointer was still in range).
C1_StepBudget ==
  /\ Running ~> Returned
  /\ [](it.MaxOps > 0 => Executed <= it.MaxOps)
  /\ []((Returned /\ result = OpLimitErr) =>
          (Executed = it.MaxOps /\ InRange /\ ~hist.ended))
  /\ [][(Running /\ Executed = it.MaxOps) =>
          (state' = "returned" /\ result' = OpLimitErr /\ hist' = hist)]_vars
  /\ [][(Running /\ Executed < it.MaxOps) =>
          (result' # OpLimitErr /\ Len(hist'.trace) = Executed + 1)]_vars
  /\ [][Running => (ops' = ops + 1 /\ ops' <= it.MaxOps + 1)]_vars

\* a run is aborted by the budget after a cycle of jumps
C1_Witness ==
  /\ Returned /\ result = OpLimitErr
  /\ hist.jumped /\ Executed = MaxOps

\* the line a taken jump of stmt goes to (when TakesJump holds)
RECURSIVE JumpTarget(_)
JumpTarget(stmt) ==
  CASE stmt.node = "GotoStmt" -> stmt.Line
    [] stmt.node = "IfStmt" ->
         IF stmt.HasLine THEN stmt.ThenLine ELSE JumpTarget(stmt.ThenStmt)
    [] OTHER -> 0

AtLineFormat == "runtime error at line %d: %w"

\* C2: executing GOTO n, or an IF whose condition is non-zero and whose form
\* is THEN n, with n not a line of the Program Table, makes Run return the
\* undefined-line error for that statement; no other statement is executed.
C2_UndefinedJump ==
  [][(/\ WillExecute
      /\ TakesJump(CurStmt, it.Env)
      /\ JumpTarget(CurStmt) \notin DOMAIN Prog.Stmts)
       => (/\ state' = "returned"
           /\ result' = <<AtLineFormat, CurLine,
                          <<"undefined line %d", JumpTarget(CurStmt)>>>>
           /\ hist'.trace = Append(hist.trace, CurLine))]_vars

\* a true IF ... THEN n with n absent has stopped the run
C2_Witness ==
  /\ Returned /\ Executed > 0
  /\ Prog.Stmts[Last(hist.trace)].node = "IfStmt"
  /\ Prog.Stmts[Last(hist.trace)].ThenLine \notin DOMAIN Prog.Stmts
  /\ result = <<AtLineFormat, Last(hist.trace),
                <<"undefined line %d", Prog.Stmts[Last(hist.trace)].ThenLine>>>>

\* C4: a run in which no jump is taken, no END is executed and no error
\* occurs executes every stored line exactly once in strictly ascending
\* line-number order and then ends successfully; a line removed with
\* DeleteLine is in neither map of the table, and only lines of the table
\* are listed or executed.
C4_SequentialOrder ==
  /\ (Returned /\ result = NoErr /\ ~hist.jumped /\ ~hist.ended)
       => hist.trace = Ascending(DOMAIN Prog.Stmts)
  /\ (state = "done" /\ last.cmd = "DeleteLine")
       => (last.line \notin DOMAIN Prog.Stmts /\ last.line \notin DOMAIN Prog.Source)
  /\ \A i \in 1..Len(listing) : listing[i][1] \in DOMAIN Prog.Stmts
  /\ \A i \in 1..Len(hist.trace) : hist.trace[i] \in DOMAIN Prog.Stmts

\* with line 20 absent, a run went from line 10 straight to line 30
C4_Witness ==
  /\ Returned /\ result = NoErr /\ ~hist.jumped /\ ~hist.ended
  /\ hist.trace = <<10, 30>>

\* C6 as stated: every run-time error Run returns carries the line number of
\* the statement at which the run was stopped.
C6_EveryErrorHasLine ==
  (Returned /\ result # NoErr)
    => (/\ Len(result) = 3
        /\ result[1] = AtLineFormat
        /\ Executed > 0
        /\ result[2] = Last(hist.trace))

\* C6, amended: the error of a failing statement (type mismatch, division by
\* zero, undefined jump target, input format) carries the line number of that
\* statement; the step-budget error carries no line number.
C6_StatementErrorHasLine ==
  (Returned /\ result # NoErr)
    => \/ /\ Len(result) = 3
          /\ result[1] = AtLineFormat
          /\ Executed > 0
          /\ result[2] = Last(hist.trace)
          /\ result[3] # NoErr
       \/ /\ result =
               <<"runtime error: operation limit exceeded (possible infinite loop)">>
          /\ Executed = it.MaxOps

\* a LET at line 20 failed its kind check
C6_Witness ==
  /\ Returned /\ Len(result) = 3
  /\ result[2] = 20
  /\ result[3] = <<"type mismatch: %s is numeric variable", NameX>>

\* C7: a step into or within a run leaves the Program Table as it was; the
\* statement on which Run returns an error has left the Environment as it
\* was when the statement began; and once Run has returned no further
\* statement of that run is executed.
C7_ErrorKeepsState ==
  /\ [][state' \in {"running", "returned"} => Prog' = Prog]_vars
  /\ [][(Running /\ state' = "returned" /\ result' # NoErr) => it'.Env = it.Env]_vars
  /\ [][Returned => Len(hist'.trace) <= Executed]_vars

\* a LET failed after an earlier LET had set X to 1, and X is still 1
C7_Witness ==
  /\ Returned /\ result # NoErr /\ Executed > 1
  /\ Prog.Stmts[Last(hist.trace)].node = "LetStmt"
  /\ NameX \in DOMAIN it.Env.NumVars
  /\ it.Env.NumVars[NameX] = Rat(1, 1)

DivByZeroAt(ln) == <<AtLineFormat, ln, <<"division by zero">>>>

\* C8: a PRINT whose evaluation fails writes nothing at all to the output;
\* `10 PRINT 1 / 0` fails with a division-by-zero error at line 10 and leaves
\* the output empty.
C8_PrintAllOrNothing ==
  /\ [][(/\ WillExecute
         /\ CurStmt.node = "PrintStmt"
         /\ state' = "returned" /\ result' # NoErr)
          => it'.Out = it.Out]_vars
  /\ []((/\ Returned
         /\ 10 \in DOMAIN Prog.Stmts
         /\ Prog.Stmts[10] = PrintStmt(<<BinaryExpr(<<"/">>, Lit(1), Lit(0))>>))
          => (result = DivByZeroAt(10) /\ it.Out = <<>>))

\* the second expression of a PRINT divided by zero and the first was not
\* written
C8_Witness ==
  /\ Returned /\ result = DivByZeroAt(10)
  /\ Len(Prog.Stmts[10].Exprs) = 2
  /\ it.Out = <<>>

\* C9: a run started after ResetEnv on the same Program Table with the same
\* input produces the same output, the same result and the same sequence of
\* executed lines as the run before it, and starts with an empty
\* Environment, pointer 0 and step count 0.
C9_RerunDeterministic ==
  /\ (Returned /\ prev.run)
       => (/\ it.Out = prev.out
           /\ result = prev.result
           /\ hist.trace = prev.hist.trace)
  /\ (prev.run /\ Executed = 0 /\ state \in {"running", "returned"})
       => (it.Env = [NumVars |-> <<>>, StrVars |-> <<>>] /\ pc = 0 /\ ops = 0)

\* the second run of a program that reads X, adds one and prints it
C9_Witness ==
  /\ Returned /\ prev.run
  /\ it.Out = << <<"?", " ">>, <<"6", "\n">> >>

\* C10: after any sequence of SetLine, DeleteLine and Clear, OrderedLines
\* (as LIST and Run call it) returns exactly the line numbers of the Program
\* Table, each once, in strictly ascending order.
C10_OrderedLinesAscending ==
  /\ (state = "done" /\ last.cmd = "LIST")
       => [i \in 1..Len(listing) |-> listing[i][1]] = Ascending(DOMAIN Prog.Stmts)
  /\ state \in {"running", "returned"} => order = Ascending(DOMAIN Prog.Stmts)

\* a listing of at least three lines
C10_Witness ==
  /\ state = "done" /\ last.cmd = "LIST"
  /\ Len(listing) >= 3

(***************************************************************************)
(* SpecEval: evalBinary applied to one operator and two operands.          *)
(***************************************************************************)
\* the numeric operands are the halves from -MaxNum to MaxNum
MaxNum == 2

EvalNumbers == { Rat(k, 2) : k \in (-2 * MaxNum)..(2 * MaxNum) }

EvalValues ==
  { NumberValue(n) : n \in EvalNumbers } \cup
  { StringValue(<<>>), StringValue(<<"A">>) }

BinaryOps ==
  { <<"+">>, <<"-">>, <<"*">>, <<"/">>, <<"=">>, <<"<", ">">>,
    <<"<">>, <<"<", "=">>, <<">">>, <<">", "=">> }

EvalInit ==
  /\ RunInit
  /\ ps = NoParse /\ en = NoEnvCalls /\ lx = NoLex /\ ex = NoExec
  /\ ev \in { [phase |-> "input", op |-> o, l |-> l, r |-> r, res |-> Val(ZeroValue)] :
                o \in BinaryOps, l \in EvalValues, r \in EvalValues }

\* evalBinary(op, l, r)
EvalApply ==
  /\ ev.phase = "input"
  /\ ev' = [ev EXCEPT !.phase = "done", !.res = evalBinary(ev.op, ev.l, ev.r)]
  /\ UNCHANGED <<runVars, ps, en, lx, ex>>

EvalNext == EvalApply

SpecEval == EvalInit /\ [][EvalNext]_vars

\* C5: for numeric operands l and r, l >= r evaluates to 1 exactly when l is
\* greater than or equal to r, and to 0 otherwise.
C5_GteDirect ==
  (/\ ev.phase = "done"
   /\ ev.op = <<">", "=">>
   /\ ev.l.Kind = ValNumber /\ ev.r.Kind = ValNumber)
    => /\ ev.res.err = NoErr
       /\ ev.res.v = NumberValue(IF ev.l.Num.n * ev.r.Num.d >= ev.r.Num.n * ev.l.Num.d
                                   THEN Rat(1, 1) ELSE Rat(0, 1))

(***************************************************************************)
(* SpecParse: one expression without parentheses, written as the text of a *)
(* PRINT statement, parsed by parseOneStatement and then evaluated.        *)
(***************************************************************************)
\* the expressions have up to MaxOperators binary operators
MaxOperators == 2

Signs == { <<>>, <<"-">> }

\* the operands are the consecutive digits from first on
OperandDigit(first, i) == DigitChars[first + i]

\* the text "PRINT s1 d1 o1 s2 d2 o2 ..." of signs, digits and operators
RECURSIVE ExprText(_, _, _, _)
ExprText(first, signs, opers, i) ==
  LET operand == signs[i] \o <<OperandDigit(first, i)>>
  IN  IF i = Len(signs) THEN operand
      ELSE operand \o <<" ">> \o opers[i] \o <<" ">> \o
           ExprText(first, signs, opers, i + 1)

PrintText(first, signs, opers) ==
  <<"P", "R", "I", "N", "T", " ">> \o ExprText(first, signs, opers, 1)

ParseInputs ==
  UNION { { [first |-> f, signs |-> sg, opers |-> os] :
              f \in {1, 2}, sg \in [1..(k + 1) -> Signs], os \in [1..k -> BinaryOps] } :
          k \in 0..MaxOperators }

ParseInit ==
  /\ RunInit
  /\ ev = NoEval /\ en = NoEnvCalls /\ lx = NoLex /\ ex = NoExec
  /\ ps \in { [phase |-> "text", in |-> x,
               text |-> PrintText(x.first, x.signs, x.opers),
               stmt |-> Nil, errs |-> <<>>, res |-> Val(ZeroValue)] :
                x \in ParseInputs }

\* parseOneStatement(text)
ParseText ==
  /\ ps.phase = "text"
  /\ LET r == parseOneStatement(ps.text)
     IN  ps' = [ps EXCEPT !.phase = "parsed", !.stmt = r.stmt, !.errs = r.errs]
  /\ UNCHANGED <<runVars, ev, en, lx, ex>>

\* evalExpr of the expression of the PRINT, in a fresh environment
EvalTree ==
  /\ ps.phase = "parsed"
  /\ ps.stmt # Nil
  /\ ps' = [ps EXCEPT !.phase = "evaluated", !.res = evalExpr(NewEnv, ps.stmt.Exprs[1])]
  /\ UNCHANGED <<runVars, ev, en, lx, ex>>

ParseNext ==
  \/ ParseText
  \/ EvalTree

SpecParse == ParseInit /\ [][ParseNext]_vars

\* the grouping strength the claim gives an operator
Level(op) ==
  CASE op \in {<<"*">>, <<"/">>} -> 3
    [] op \in {<<"+">>, <<"-">>} -> 2
    [] OTHER -> 1

\* the tree groups as the claim says: under a binary operator the left
\* operand is not a weaker operator and the right operand is a stronger one
\* (equal strength groups to the left), and a sign applies to no binary
\* operator
RECURSIVE WellGrouped(_)
WellGrouped(e) ==
  CASE e.node = "BinaryExpr" ->
         /\ e.Lhs.node = "BinaryExpr" => Level(e.Lhs.Op) >= Level(e.Op)
         /\ e.Rhs.node = "BinaryExpr" => Level(e.Rhs.Op) > Level(e.Op)
         /\ WellGrouped(e.Lhs) /\ WellGrouped(e.Rhs)
    [] e.node = "UnaryExpr" -> e.Rhs.node # "BinaryExpr" /\ WellGrouped(e.Rhs)
    [] OTHER -> TRUE

\* the signs, operands and operators of a tree, left to right
RECURSIVE Flatten(_)
Flatten(e) ==
  CASE e.node = "BinaryExpr" -> Flatten(e.Lhs) \o <<e.Op>> \o Flatten(e.Rhs)
    [] e.node = "UnaryExpr" -> <<e.Op>> \o Flatten(e.Rhs)
    [] e.node = "NumberLit" -> <<e.Value>>
    [] OTHER -> <<e>>

\* the signs, operands and operators of an input, left to right
RECURSIVE Written(_, _)
Written(x, i) ==
  LET operand == (IF x.signs[i] = <<>> THEN <<>> ELSE <<x.signs[i]>>) \o
                 <<Rat(x.first + i - 1, 1)>>
  IN  IF i = Len(x.signs) THEN operand
      ELSE operand \o <<x.opers[i]>> \o Written(x, i + 1)

\* C3: for every expression written without parentheses the parser builds a
\* tree over exactly the written operands and operators in which * and /
\* group tighter than + and -, which group tighter than the comparison
\* operators, a unary sign groups tighter than any binary operator, and
\* operators of equal precedence group to the left; "1 + 2 * 3" evaluates
\* to 7 and "2 - 3 - 4" to -5.
C3_Precedence ==
  /\ ps.phase \in {"parsed", "evaluated"} =>
       /\ ps.stmt # Nil /\ ps.errs = <<>>
       /\ ps.stmt.node = "PrintStmt" /\ Len(ps.stmt.Exprs) = 1
       /\ Flatten(ps.stmt.Exprs[1]) = Written(ps.in, 1)
       /\ WellGrouped(ps.stmt.Exprs[1])
  /\ (ps.phase = "evaluated" /\ ps.text = <<"P", "R", "I", "N", "T", " ", "1", " ", "+", " ", "2", " ", "*", " ", "3">>)
       => ps.res = Val(NumberValue(Rat(7, 1)))
  /\ (ps.phase = "evaluated" /\ ps.text = <<"P", "R", "I", "N", "T", " ", "2", " ", "-", " ", "3", " ", "-", " ", "4">>)
       => ps.res = Val(NumberValue(Rat(-5, 1)))

\* "1 + 2 * 3" has been parsed and evaluated to 7
C3_Witness ==
  /\ ps.phase = "evaluated"
  /\ ps.text = <<"P", "R", "I", "N", "T", " ", "1", " ", "+", " ", "2", " ", "*", " ", "3">>
  /\ ps.res.v.Num = Rat(7, 1)

(***************************************************************************)
(* SpecEnv: one environment, from NewEnv, under a bounded number of calls  *)
(* of Set and Get.  en.sets is the history of the calls of Set that        *)
(* returned no error, in order.                                            *)
(***************************************************************************)
\* the number of calls made on the environment
MaxCalls == 3

EnvNames == { <<"x">>, <<"X">>, <<"y">>, <<"x", "$">> }

EnvValues ==
  { NumberValue(Rat(1, 1)), NumberValue(Rat(2, 1)), StringValue(<<"A">>) }

EnvInit ==
  /\ RunInit
  /\ ev = NoEval /\ ps = NoParse /\ lx = NoLex /\ ex = NoExec
  /\ en = [phase |-> "env", Env |-> NewEnv, before |-> NewEnv, calls |-> 0,
           op |-> "NewEnv", name |-> <<>>, v |-> ZeroValue, err |-> NoErr,
           got |-> ZeroValue, sets |-> <<>>]

\* err := e.Set(name, v)
EnvSetCall ==
  /\ en.phase = "env" /\ en.calls < MaxCalls
  /\ \E name \in EnvNames, v \in EnvValues :
       \E r \in {EnvSet(en.Env, name, v)} :
         en' = [en EXCEPT !.Env = r.Env, !.before = en.Env, !.calls = @ + 1,
                          !.op = "Set", !.name = name, !.v = v, !.err = r.err,
                          !.sets = IF r.err = NoErr
                                     THEN Append(@, <<name, v>>) ELSE @]
  /\ UNCHANGED <<runVars, ev, ps, lx, ex>>

\* got := e.Get(name)
EnvGetCall ==
  /\ en.phase = "env" /\ en.calls < MaxCalls
  /\ \E name \in EnvNames :
       en' = [en EXCEPT !.before = en.Env, !.calls = @ + 1, !.op = "Get",
                        !.name = name, !.got = EnvGet(en.Env, name)]
  /\ UNCHANGED <<runVars, ev, ps, lx, ex>>

EnvNext ==
  \/ EnvSetCall
  \/ EnvGetCall

SpecEnv == EnvInit /\ [][EnvNext]_vars

\* the two characters are one letter, in either case
SameLetter(a, b) ==
  \/ a = b
  \/ \E i \in 1..26 : {a, b} = {LowerChars[i], UpperChars[i]}

\* the two names differ at most in the case of their letters
SameSlot(a, b) ==
  Len(a) = Len(b) /\ \A i \in 1..Len(a) : SameLetter(a[i], b[i])

\* the kind a name stands for: textual when it ends in $, numeric otherwise
KindOfName(name) == IF name[Len(name)] = "$" THEN ValString ELSE ValNumber

\* what a variable holds, as a value of the kind of its name
Holds(e, name) == EnvGet(e, name)

\* C12: Set(name, v) fails with a type-mismatch error exactly when the kind
\* of v is not the kind of the name, and then the environment is as it was;
\* otherwise the name holds v afterwards, whatever it held before, and every
\* variable in another slot holds what it held before.
C12_SetContract ==
  (en.phase = "env" /\ en.op = "Set") =>
    /\ en.err # NoErr <=> en.v.Kind # KindOfName(en.name)
    /\ en.err # NoErr =>
         /\ en.Env = en.before
         /\ en.err[1] \in { "type mismatch: %s is string variable",
                            "type mismatch: %s is numeric variable" }
    /\ en.err = NoErr =>
         /\ Holds(en.Env, en.name) = en.v
         /\ \A n \in EnvNames :
              ~SameSlot(n, en.name) => Holds(en.Env, n) = Holds(en.before, n)
         /\ DOMAIN en.Env.NumVars \cup DOMAIN en.Env.StrVars
              = DOMAIN en.before.NumVars \cup DOMAIN en.before.StrVars
                  \cup {ToUpper(en.name)}

\* y holds 2, x has been overwritten and a text has just been refused for X
C12_Witness ==
  /\ en.phase = "env" /\ en.op = "Set" /\ en.name = <<"X">>
  /\ en.err # NoErr /\ Len(en.sets) = 2
  /\ en.sets[1][1] = <<"y">> /\ en.sets[2][1] = <<"x">>

\* the store overwrote an earlier value and left another variable alone
C12_WitnessStore ==
  /\ en.phase = "env" /\ en.op = "Set" /\ en.err = NoErr
  /\ Len(en.sets) = 3
  /\ en.sets[1] = <<<<"y">>, NumberValue(Rat(2, 1))>>
  /\ en.sets[2] = <<<<"x">>, NumberValue(Rat(1, 1))>>
  /\ en.sets[3] = <<<<"X">>, NumberValue(Rat(2, 1))>>

\* the indices of the successful Sets to the slot of the name
SetsTo(sets, name) == { i \in 1..Len(sets) : SameSlot(sets[i][1], name) }

LastOf(S) == CHOOSE x \in S : \A y \in S : y <= x

\* the value a read of the name must give after the successful Sets
Expected(sets, name) ==
  IF SetsTo(sets, name) = {}
    THEN IF KindOfName(name) = ValString
           THEN StringValue(<<>>) ELSE NumberValue(Zero)
    ELSE sets[LastOf(SetsTo(sets, name))][2]

\* C13: Get returns a value for every name: numeric 0 or the empty text,
\* by the kind of the name, when no Set to the name has succeeded, and else
\* the value of the most recent successful Set; names that differ only in
\* letter case read the same slot.
C13_GetContract ==
  en.phase = "env" =>
    /\ en.op = "Get" =>
         /\ en.got = Expected(en.sets, en.name)
         /\ en.got.Kind = KindOfName(en.name)
         /\ en.Env = en.before
    /\ \A n \in EnvNames : EnvGet(en.Env, n) = Expected(en.sets, n)
    /\ \A a, b \in EnvNames :
         SameSlot(a, b) => EnvGet(en.Env, a) = EnvGet(en.Env, b)

\* x was set to 1, a text was refused for X, and x has just been read as 1
C13_Witness ==
  /\ en.phase = "env" /\ en.op = "Get" /\ en.name = <<"x">>
  /\ en.calls = 3 /\ en.err # NoErr
  /\ en.sets = << <<<<"X">>, NumberValue(Rat(1, 1))>> >>
  /\ en.got = NumberValue(Rat(1, 1))


(***************************************************************************)
(* SpecStmt: ParseStatement on the parser of one source text.  The texts   *)
(* are a beginning of a statement followed by up to MaxTail further words. *)
(***************************************************************************)
MaxTail == 2

StmtHeads ==
  {
    <<"L", "E", "T", " ", "X", " ", "=">>, <<"L", "E", "T", " ", "X">>,
    <<"L", "E", "T">>, <<"X", " ", "=">>, <<"X">>,
    <<"P", "R", "I", "N", "T">>, <<"P", "R", "I", "N", "T", " ", "(">>,
    <<"P", "R", "I", "N", "T", " ", "1", " ", ",">>,
    <<"I", "N", "P", "U", "T">>, <<"G", "O", "T", "O">>, <<"I", "F">>,
    <<"I", "F", " ", "1", " ", "T", "H", "E", "N">>,
    <<"I", "F", " ", "X", " ", "<">>, <<"E", "N", "D">>, <<"R", "E", "M">>,
    <<")">>, <<"@">>, <<>>
  }

StmtWords ==
  {
    <<"X">>, <<"1">>, <<"1", ".", "5">>, <<"1", "0">>, <<"(">>, <<")">>,
    <<"+">>, <<",">>, <<"\"", "A", "\"">>, <<"T", "H", "E", "N">>,
    <<"E", "N", "D">>
  }

\* the words of ws after the text s, each after one space
RECURSIVE JoinWords(_, _)
JoinWords(s, ws) ==
  IF ws = <<>> THEN s
  ELSE JoinWords(IF s = <<>> THEN ws[1] ELSE s \o <<" ">> \o ws[1], Tail(ws))

StmtTexts ==
  { JoinWords(h, ws) :
      h \in StmtHeads, ws \in UNION { [1..k -> StmtWords] : k \in 0..MaxTail } }

StmtInit ==
  /\ RunInit
  /\ ev = NoEval /\ en = NoEnvCalls /\ lx = NoLex /\ ex = NoExec
  /\ ps \in { [phase |-> "source", text |-> t, stmt |-> Nil, errs |-> <<>>,
               one |-> [stmt |-> Nil, errs |-> <<>>]] : t \in StmtTexts }

\* p := NewParser(src); stmt := p.ParseStatement(), with p.Errors() after
\* the call, and parseOneStatement(src) on the same text
ParseStmt ==
  /\ ps.phase = "source"
  /\ \E r \in {ParseStatement(NewParser(ps.text))} :
       ps' = [ps EXCEPT !.phase = "statement", !.stmt = r.v,
                        !.errs = Errors(r.p), !.one = parseOneStatement(ps.text)]
  /\ UNCHANGED <<runVars, ev, en, lx, ex>>

StmtNext == ParseStmt

SpecStmt == StmtInit /\ [][StmtNext]_vars

\* C14: ParseStatement returns a statement and has recorded no error, or
\* returns nil and has recorded at least one error; parseOneStatement hands
\* on the same statement, or nil with the same errors.
C14_StatementOrErrors ==
  ps.phase = "statement" =>
    /\ \/ ps.stmt # Nil /\ ps.errs = <<>>
       \/ ps.stmt = Nil /\ Len(ps.errs) >= 1
    /\ ps.one.stmt = ps.stmt
    /\ ps.stmt = Nil => ps.one.errs = ps.errs

\* PRINT ( 1 has failed on the missing ')', with that one error and no
\* statement
C14_Witness ==
  /\ ps.phase = "statement"
  /\ ps.text = <<"P", "R", "I", "N", "T", " ", "(", " ", "1">>
  /\ ps.stmt = Nil
  /\ ps.errs = << <<"expexted ')'">> >>

\* the tokens of the text l is at, up to and with the first EOF
RECURSIVE tokensFrom(_)
tokensFrom(l) ==
  The({ IF r.tok.Type = EOF THEN <<r.tok>> ELSE <<r.tok>> \o tokensFrom(r.l) :
        r \in {NextToken(l)} })

\* the indexes of the THEN tokens of toks
ThenAt(toks) == { i \in 1..Len(toks) : toks[i].Type = "THEN" }

\* text is IF, a well-formed condition, THEN, one whole number and the end:
\* the token after the first THEN is a NUMBER followed by EOF
ThenNumber(text) ==
  \E toks \in {tokensFrom(NewLexer(text))} :
    /\ toks[1].Type = "IF"
    /\ ThenAt(toks) # {}
    /\ \E i \in ThenAt(toks) :
         /\ \A j \in ThenAt(toks) : i <= j
         /\ i + 2 = Len(toks)
         /\ toks[i + 1].Type = NUMBER
         /\ parseIntStrict(toks[i + 1].Literal).ok
    /\ \E c \in {parseExpr(nextToken(NewParser(text)), LOWEST)} :
         c.v # Nil /\ c.p.peekTok.Type = "THEN"

\* the line number written after THEN in such a text
ThenNumberOf(text) ==
  The({ parseIntStrict(toks[Len(toks) - 1].Literal).n :
        toks \in {tokensFrom(NewLexer(text))} })

IsIf(stmt) == stmt # Nil /\ stmt.node = "IfStmt"

\* C24: an IF statement that ParseStatement returns has one of its two forms,
\* the THEN line with no embedded statement or an embedded statement with no
\* THEN line, and the text has the THEN line form exactly when the token
\* after THEN is a number followed by the end of the text: such a text gives
\* the IF with that line, and no other text gives an IF with a THEN line.
C24_IfForms ==
  ps.phase = "statement" =>
    /\ IsIf(ps.stmt) =>
         \/ ps.stmt.HasLine /\ ps.stmt.ThenStmt = Nil
         \/ ~ps.stmt.HasLine /\ ps.stmt.ThenStmt # Nil
    /\ ThenNumber(ps.text) =>
         /\ IsIf(ps.stmt) /\ ps.stmt.HasLine
         /\ ps.stmt.ThenLine = ThenNumberOf(ps.text)
    /\ (IsIf(ps.stmt) /\ ps.stmt.HasLine) => ThenNumber(ps.text)

\* no text gives an IF statement: the parser stands on THEN when it looks
\* for the number or the embedded statement
C24_NoIfParsed == ps.phase = "statement" => ~IsIf(ps.stmt)

\* IF 1 THEN 10 is refused with "unexpected token THEN"
C24_ThenRefused ==
  (ps.phase = "statement" /\
   ps.text = <<"I", "F", " ", "1", " ", "T", "H", "E", "N", " ", "1", "0">>) =>
    /\ ThenNumber(ps.text)
    /\ ps.stmt = Nil
    /\ ps.errs = << <<"unexpected token %s", "THEN">> >>


(***************************************************************************)
(* SpecLoop: Run on programs with loops.  The table holds any choice of    *)
(* the lines 10, 20, ..., 10 * LoopLines, each with a statement of the     *)
(* pool of its line, and the interpreter has a budget of LoopOps steps.    *)
(***************************************************************************)
LoopLines == 4

LoopOps == 12

Pool10 ==
  <<
    [src  |-> <<"L", "E", "T", " ", "X", " ", "=", " ", "1">>,
     stmt |-> LetStmt(NameX, Lit(1))],
    [src  |-> <<"G", "O", "T", "O", " ", "3", "0">>,
     stmt |-> GotoStmt(30)],
    [src  |-> <<"I", "F", " ", "1", " ", "T", "H", "E", "N", " ", "E", "N",
               "D">>,
     stmt |-> IfStmt(Lit(1), EndStmt, 0, FALSE)]
  >>

Pool20 ==
  <<
    [src  |-> <<"P", "R", "I", "N", "T", " ", "X">>,
     stmt |-> PrintStmt(<<VarRef(NameX)>>)],
    [src  |-> <<"E", "N", "D">>,
     stmt |-> EndStmt],
    [src  |-> <<"I", "F", " ", "X", " ", "<", "=", " ", "0", " ", "T", "H",
               "E", "N", " ", "E", "N", "D">>,
     stmt |-> IfStmt(BinaryExpr(<<"<", "=">>, VarRef(NameX), Lit(0)), EndStmt, 0, FALSE)]
  >>

Pool30 ==
  <<
    [src  |-> <<"L", "E", "T", " ", "X", " ", "=", " ", "X", " ", "+", " ",
               "1">>,
     stmt |-> LetStmt(NameX, BinaryExpr(<<"+">>, VarRef(NameX), Lit(1)))],
    [src  |-> <<"P", "R", "I", "N", "T", " ", "X">>,
     stmt |-> PrintStmt(<<VarRef(NameX)>>)],
    [src  |-> <<"I", "F", " ", "0", " ", "T", "H", "E", "N", " ", "E", "N",
               "D">>,
     stmt |-> IfStmt(Lit(0), EndStmt, 0, FALSE)]
  >>

\* the pool of line 40 and of every later line
Pool40 ==
  <<
    [src  |-> <<"I", "F", " ", "X", " ", "<", "=", " ", "3", " ", "T", "H",
               "E", "N", " ", "2", "0">>,
     stmt |-> IfStmt(BinaryExpr(<<"<", "=">>, VarRef(NameX), Lit(3)), Nil, 20, TRUE)],
    [src  |-> <<"G", "O", "T", "O", " ", "2", "0">>,
     stmt |-> GotoStmt(20)],
    [src  |-> <<"I", "F", " ", "X", " ", "<", "=", " ", "3", " ", "T", "H",
               "E", "N", " ", "I", "F", " ", "1", " ", "T", "H", "E", "N",
               " ", "G", "O", "T", "O", " ", "2", "0">>,
     stmt |-> IfStmt(BinaryExpr(<<"<", "=">>, VarRef(NameX), Lit(3)), IfStmt(Lit(1), GotoStmt(20), 0, FALSE), 0, FALSE)],
    [src  |-> <<"I", "F", " ", "X", " ", "<", "=", " ", "3", " ", "T", "H",
               "E", "N", " ", "1", "0">>,
     stmt |-> IfStmt(BinaryExpr(<<"<", "=">>, VarRef(NameX), Lit(3)), Nil, 10, TRUE)]
  >>

LinePool(ln) ==
  CASE ln = 10 -> Pool10
    [] ln = 20 -> Pool20
    [] ln = 30 -> Pool30
    [] OTHER -> Pool40

\* the table after prog.SetLine for the lines 10 * 1 .. 10 * k that the
\* choice c gives a statement (c[i] = 0 leaves line 10 * i out)
RECURSIVE Loaded(_, _)
Loaded(c, k) ==
  IF k = 0 THEN NewProgram
  ELSE IF c[k] = 0 THEN Loaded(c, k - 1)
  ELSE SetLine(Loaded(c, k - 1), 10 * k,
               LinePool(10 * k)[c[k]].src, LinePool(10 * k)[c[k]].stmt)

LoopChoices ==
  { c \in [1..LoopLines -> 0..4] :
      \A i \in 1..LoopLines : c[i] <= Len(LinePool(10 * i)) }

LoopInit ==
  /\ Prog \in { Loaded(c, LoopLines) : c \in LoopChoices }
  /\ it = NoInterpreter
  /\ order = <<>>
  /\ lineIndex = EmptyMap
  /\ pc = 0
  /\ ops = 0
  /\ state = "ready"
  /\ result = NoErr
  /\ last = NoCmd
  /\ listing = <<>>
  /\ hist = NoHist
  /\ prev = NoPrev
  /\ ev = NoEval /\ ps = NoParse /\ en = NoEnvCalls /\ lx = NoLex /\ ex = NoExec

\* it := NewInterpreter(prog, in, out); it.MaxOps = LoopOps; it.Run()
LoopRun ==
  /\ state = "ready"
  /\ \E keys \in KeyOrders(DOMAIN Prog.Stmts) :
       RunBegin([NewInterpreter(<<>>, <<>>) EXCEPT !.MaxOps = LoopOps], <<>>, keys)
  /\ prev' = NoPrev

LoopNext ==
  \/ LoopRun
  \/ RunStep

SpecLoop == LoopInit /\ [][LoopNext]_vars


(***************************************************************************)
(* Stmt.String and Expr.String (ast.go).                                   *)
(***************************************************************************)
\* the escape of strconv.Quote for one byte (printable ASCII and the common
\* control bytes)
QuoteChar(ch) ==
  CASE ch = "\"" -> <<"\\", "\"">>
    [] ch = "\\" -> <<"\\", "\\">>
    [] ch = "\t" -> <<"\\", "t">>
    [] ch = "\n" -> <<"\\", "n">>
    [] ch = "\r" -> <<"\\", "r">>
    [] OTHER -> <<ch>>

RECURSIVE QuoteBody(_)
QuoteBody(s) == IF s = <<>> THEN <<>> ELSE QuoteChar(s[1]) \o QuoteBody(Tail(s))

\* strconv.Quote
Quote(s) == <<"\"">> \o QuoteBody(s) \o <<"\"">>

\* %d
FormatInt(n) == IF n < 0 THEN <<"-">> \o IntToDigits(-n) ELSE IntToDigits(n)

RECURSIVE ExprString(_)
ExprString(e) ==
  CASE e.node = "NumberLit" -> FormatFloat(e.Value)
    [] e.node = "StringLit" -> Quote(e.Value)
    [] e.node = "VarRef" -> e.Name
    [] e.node = "UnaryExpr" -> <<"(">> \o e.Op \o ExprString(e.Rhs) \o <<")">>
    [] e.node = "BinaryExpr" ->
         <<"(">> \o ExprString(e.Lhs) \o <<" ">> \o e.Op \o <<" ">> \o
         ExprString(e.Rhs) \o <<")">>

RECURSIVE StmtString(_)
StmtString(s) ==
  CASE s.node = "RemStmt" -> <<"R", "E", "M">>
    [] s.node = "LetStmt" -> s.Name \o <<" ", "=", " ">> \o ExprString(s.Expr)
    [] s.node = "PrintStmt" ->
         IF Len(s.Exprs) = 0 THEN <<"P", "R", "I", "N", "T">>
         ELSE <<"P", "R", "I", "N", "T", " ">> \o
              Join([i \in 1..Len(s.Exprs) |-> ExprString(s.Exprs[i])], <<",", " ">>)
    [] s.node = "InputStmt" -> <<"I", "N", "P", "U", "T", " ">> \o s.Name
    [] s.node = "IfStmt" ->
         <<"I", "F", " ">> \o ExprString(s.Cond) \o <<" ", "T", "H", "E", "N", " ">> \o
         (IF s.HasLine THEN FormatInt(s.ThenLine) ELSE StmtString(s.ThenStmt))
    [] s.node = "GotoStmt" -> <<"G", "O", "T", "O", " ">> \o FormatInt(s.Line)
    [] s.node = "EndStmt" -> <<"E", "N", "D">>

(***************************************************************************)
(* SpecText: a source text is parsed, the statement is written with        *)
(* String() and the text written is parsed again.                          *)
(***************************************************************************)
\* the number of expressions of a PRINT
MaxPrintArgs == 2

TextExprs ==
  {
    <<"X">>, <<"A", "$">>, <<"1">>, <<"1", ".", "5">>,
    <<"1", "0", "0", "0", "0", "0", "0">>,
    <<"0", ".", "0", "0", "0", "0", "1">>, <<"\"", "A", "\"">>,
    <<"\"", "\"">>, <<"\"", "\\", "\"">>, <<"-", "X">>,
    <<"-", " ", "-", "1">>, <<"-", "1", " ", "+", " ", "2">>,
    <<"1", " ", "+", " ", "2", " ", "*", " ", "X">>,
    <<"(", "1", " ", "+", " ", "2", ")", " ", "*", " ", "3">>,
    <<"1", " ", "-", " ", "2", " ", "-", " ", "3">>,
    <<"X", " ", "=", " ", "1">>
  }

\* the texts of es, each after a comma and a space but the first
RECURSIVE CommaList(_)
CommaList(es) ==
  IF Len(es) = 1 THEN es[1]
  ELSE es[1] \o <<",", " ">> \o CommaList(Tail(es))

SourceTexts ==
  {
    <<"R", "E", "M">>, <<"E", "N", "D">>, <<"P", "R", "I", "N", "T">>,
    <<"G", "O", "T", "O", " ", "1", "0">>,
    <<"I", "N", "P", "U", "T", " ", "X">>,
    <<"I", "N", "P", "U", "T", " ", "A", "$">>
  } \cup
  { <<"P", "R", "I", "N", "T", " ">> \o CommaList(es) :
      es \in UNION { [1..k -> TextExprs] : k \in 1..MaxPrintArgs } } \cup
  { <<"L", "E", "T", " ", "X", " ", "=", " ">> \o e : e \in TextExprs } \cup
  { <<"A", "$", " ", "=", " ">> \o e : e \in TextExprs } \cup
  { <<"I", "F", " ">> \o e \o <<" ", "T", "H", "E", "N", " ", "1", "0">> :
      e \in TextExprs } \cup
  { <<"I", "F", " ">> \o e \o <<" ", "T", "H", "E", "N", " ", "E", "N", "D">> :
      e \in TextExprs }

NoStatement == [stmt |-> Nil, errs |-> <<>>]

TextInit ==
  /\ RunInit
  /\ ev = NoEval /\ en = NoEnvCalls /\ lx = NoLex /\ ex = NoExec
  /\ ps \in { [phase |-> "source", text |-> t, stmt |-> Nil, errs |-> <<>>,
               one |-> NoStatement, str |-> <<>>, again |-> NoStatement] :
             t \in SourceTexts }

\* str := stmt.String(), for the statement parseOneStatement returned
Stringify ==
  /\ ps.phase = "statement"
  /\ ps.one.stmt # Nil
  /\ ps' = [ps EXCEPT !.phase = "written", !.str = StmtString(ps.one.stmt)]
  /\ UNCHANGED <<runVars, ev, en, lx, ex>>

\* parseOneStatement(str)
Reparse ==
  /\ ps.phase = "written"
  /\ ps' = [ps EXCEPT !.phase = "reparsed", !.again = parseOneStatement(ps.str)]
  /\ UNCHANGED <<runVars, ev, en, lx, ex>>

TextNext ==
  \/ ParseStmt
  \/ Stringify
  \/ Reparse

SpecText == TextInit /\ [][TextNext]_vars

\* C16: the text String() gives for a statement the parser produced parses
\* to a statement equal to it (number literals are compared by value, so
\* their reformatting does not count).
C16_RoundTrip ==
  ps.phase = "reparsed" => ps.again.stmt = ps.one.stmt


(***************************************************************************)
(* SpecLex: NextToken called again and again on the lexer of one input     *)
(* text, until end-of-input has been returned more than once.              *)
(***************************************************************************)
\* the length of the input text
MaxInput == 4

\* a letter, a digit, the dot, the quote, a blank, two operator bytes, the
\* line feed (not a byte of any token) and the zero byte
LexBytes == {"A", "1", ".", "\"", " ", "<", "=", "\n", NUL}

LexInputs == UNION { [1..k -> LexBytes] : k \in 0..MaxInput }

TokenTypes ==
  {ILLEGAL, EOF, IDENT, NUMBER, STR, ASSIGN, PLUS, MINUS, ASTER, SLASH, NEQ,
   LT, LTE, GT, GTE, LPAREN, RPAREN, COMMA} \cup
  { keywords[k] : k \in DOMAIN keywords }

LexInit ==
  /\ RunInit
  /\ ev = NoEval /\ ps = NoParse /\ en = NoEnvCalls /\ ex = NoExec
  /\ lx \in { [phase |-> "lex", l |-> NewLexer(s), calls |-> 0,
               tok |-> Token(NUL, <<>>), before |-> 0, tokens |-> 0,
               ended |-> FALSE, endedBefore |-> FALSE] : s \in LexInputs }

\* tok := l.NextToken()
LexCall ==
  /\ lx.phase = "lex"
  /\ lx.calls < Len(lx.l.input) + 2
  /\ \E r \in {NextToken(lx.l)} :
       lx' = [lx EXCEPT !.l = r.l, !.tok = r.tok, !.calls = @ + 1,
                        !.before = lx.l.position,
                        !.tokens = IF r.tok.Type = EOF THEN @ ELSE @ + 1,
                        !.endedBefore = lx.ended,
                        !.ended = @ \/ r.tok.Type = EOF]
  /\ UNCHANGED <<runVars, ev, ps, en, ex>>

LexNext == LexCall

SpecLex == LexInit /\ [][LexNext]_vars

\* C17: a call of NextToken never moves the position back; a call that
\* returns a token other than end-of-input moves it forward by at least one
\* byte, so there are at most len(input) such tokens and the call after them
\* returns end-of-input; after end-of-input every call returns end-of-input;
\* every token returned is a token of a known type, also for a string
\* without its closing quote and for a byte of no token.
C17_LexerProgress ==
  (lx.phase = "lex" /\ lx.calls > 0) =>
    /\ lx.l.position >= lx.before
    /\ lx.tok.Type # EOF => lx.l.position >= lx.before + 1
    /\ lx.tokens <= Len(lx.l.input)
    /\ lx.calls > Len(lx.l.input) => lx.ended
    /\ lx.endedBefore => lx.tok = Token(EOF, <<>>)
    /\ lx.tok.Type \in TokenTypes

\* the text "A, line feed, < has given an illegal token for the open string,
\* one for the line feed, the token <, and then end-of-input twice
C17_Witness ==
  /\ lx.phase = "lex"
  /\ lx.l.input = <<"\"", "A", "\n", "<">>
  /\ lx.calls = 5 /\ lx.tokens = 3
  /\ lx.endedBefore /\ lx.tok.Type = EOF


(***************************************************************************)
(* SpecExec: execStmt on one IF statement, at a line of a three-line       *)
(* program, in an environment where X is unset or 5.                       *)
(***************************************************************************)
\* the number of IFs inside one another
MaxNest == 2

ExecConds ==
  { Lit(0), Lit(1), StringLit(<<"A">>), VarRef(<<"A", "$">>),
    BinaryExpr(<<"<">>, VarRef(NameX), Lit(2)),
    BinaryExpr(<<"/">>, Lit(1), Lit(0)) }

\* the statements an IF can embed that are not IFs; line 50 is undefined
PlainStmts ==
  { RemStmt, EndStmt, GotoStmt(30), GotoStmt(50), InputStmt(NameX),
    PrintStmt(<<VarRef(NameX)>>),
    LetStmt(NameX, BinaryExpr(<<"+">>, VarRef(NameX), Lit(1))),
    LetStmt(NameX, StringLit(<<"A">>)) }

\* the IF statements of at most k levels
RECURSIVE IfStmts(_)
IfStmts(k) ==
  { IfStmt(c, Nil, n, TRUE) : c \in ExecConds, n \in {30, 50} } \cup
  { IfStmt(c, s, 0, FALSE) :
      c \in ExecConds,
      s \in PlainStmts \cup (IF k > 1 THEN IfStmts(k - 1) ELSE {}) }

ExecLineIndex == (10 :> 0) @@ (20 :> 1) @@ (30 :> 2)

ExecEnvs ==
  { NewEnv, [NewEnv EXCEPT !.NumVars = (NameX :> Rat(5, 1))] }

ExecInit ==
  /\ RunInit
  /\ ev = NoEval /\ ps = NoParse /\ en = NoEnvCalls /\ lx = NoLex
  /\ ex \in { [phase |-> "input", stmt |-> s, pc |-> p,
               it |-> [NewInterpreter(tape, <<>>) EXCEPT !.Env = e],
               res |-> Done(0, FALSE, NoErr, NoInterpreter)] :
             s \in IfStmts(MaxNest), p \in {0, 2}, e \in ExecEnvs, tape \in Tapes }

\* it.execStmt(stmt, lineNo, lineIndex, pc), for the statement of ex (an IF in
\* SpecExec, any statement in SpecStep)
ExecIf ==
  /\ ex.phase = "input"
  /\ ex' = [ex EXCEPT !.phase = "done",
                      !.res = execStmt(ex.stmt, 10 * (ex.pc + 1), ExecLineIndex,
                                       ex.pc, ex.it)]
  /\ UNCHANGED <<runVars, ev, ps, en, lx>>

ExecNext == ExecIf

SpecExec == ExecInit /\ [][ExecNext]_vars

\* C19: an IF whose condition is numeric zero goes to the next line and
\* changes nothing, whatever its embedded statement or THEN line (an
\* undefined THEN line included); an IF whose condition is a text fails with
\* the type error; an IF whose condition is a number other than zero and
\* that embeds a statement gives the next pointer, termination signal,
\* error, output, input and variables that the embedded statement gives at
\* that line in that interpreter.
C19_IfSemantics ==
  ex.phase = "done" =>
    \E c \in {evalExpr(ex.it.Env, ex.stmt.Cond)} :
      /\ (c.err = NoErr /\ c.v.Kind = ValNumber /\ c.v.Num = Zero) =>
           ex.res = Done(ex.pc + 1, FALSE, NoErr, ex.it)
      /\ (c.err = NoErr /\ c.v.Kind = ValString) =>
           /\ ex.res.err = <<"IF condition must be numeric">>
           /\ ~ex.res.end /\ ex.res.it = ex.it
      /\ (c.err = NoErr /\ c.v.Kind = ValNumber /\ c.v.Num # Zero
            /\ ~ex.stmt.HasLine) =>
           ex.res = execStmt(ex.stmt.ThenStmt, 10 * (ex.pc + 1), ExecLineIndex,
                             ex.pc, ex.it)

\* IF 0 THEN 50 at line 30, with no line 50: the next pointer is 3 and there
\* is no error
C19_Witness ==
  /\ ex.phase = "done"
  /\ ex.stmt = IfStmt(Lit(0), Nil, 50, TRUE)
  /\ ex.pc = 2
  /\ ex.res.nextPC = 3 /\ ex.res.err = NoErr /\ ~ex.res.end

\* IF X < 2 THEN IF 1 THEN END with X unset has given the termination signal
C19_WitnessNested ==
  /\ ex.phase = "done"
  /\ ex.stmt = IfStmt(BinaryExpr(<<"<">>, VarRef(NameX), Lit(2)),
                      IfStmt(Lit(1), EndStmt, 0, FALSE), 0, FALSE)
  /\ ex.it.Env = NewEnv
  /\ ex.res.end /\ ex.res.err = NoErr


(***************************************************************************)
(* Further properties of SpecEval.                                         *)
(***************************************************************************)
ArithmeticOps == { <<"+">>, <<"-">>, <<"*">>, <<"/">> }
OrderOps == { <<"<">>, <<"<", "=">>, <<">">>, <<">", "=">> }
EqualityOps == { <<"=">>, <<"<", ">">> }

IsText(v) == v.Kind = ValString

\* the operands have equal values: two equal numbers or two equal texts
SameValue(l, r) ==
  l.Kind = r.Kind /\ (IF IsText(l) THEN l.Str = r.Str ELSE l.Num = r.Num)

TypeErrors ==
  { <<"arithmetic requires numbers">>, <<"ordered comparison requires numbers">>,
    <<"type mismatch in comparison">> }

\* C20: evalBinary fails with a type error for + - * / < <= > >= with a text
\* among the operands and for = <> with operands of different kinds, fails
\* with the division error for / by the number zero, and succeeds in every
\* other case; = is 1 exactly for operands of equal value and <> is 1
\* exactly otherwise; every comparison gives the number 0 or the number 1.
C20_BinaryFailures ==
  ev.phase = "done" =>
    LET typeFail == \/ /\ ev.op \in ArithmeticOps \cup OrderOps
                       /\ (IsText(ev.l) \/ IsText(ev.r))
                    \/ /\ ev.op \in EqualityOps
                       /\ ev.l.Kind # ev.r.Kind
        zeroFail == /\ ev.op = <<"/">> /\ ~IsText(ev.l) /\ ~IsText(ev.r)
                    /\ ev.r.Num = Zero
    IN  /\ typeFail <=> ev.res.err \in TypeErrors
        /\ zeroFail <=> ev.res.err = <<"division by zero">>
        /\ (~typeFail /\ ~zeroFail) <=> ev.res.err = NoErr
        /\ (ev.res.err = NoErr /\ ev.op = <<"=">>) =>
             ev.res.v = NumberValue(IF SameValue(ev.l, ev.r) THEN Rat(1, 1) ELSE Zero)
        /\ (ev.res.err = NoErr /\ ev.op = <<"<", ">">>) =>
             ev.res.v = NumberValue(IF SameValue(ev.l, ev.r) THEN Zero ELSE Rat(1, 1))
        /\ (ev.res.err = NoErr /\ ev.op \in OrderOps \cup EqualityOps) =>
             ev.res.v \in { NumberValue(Zero), NumberValue(Rat(1, 1)) }

\* "A" <> "" has given 1
C20_Witness ==
  /\ ev.phase = "done" /\ ev.op = <<"<", ">">>
  /\ ev.l = StringValue(<<"A">>) /\ ev.r = StringValue(<<>>)
  /\ ev.res = Val(NumberValue(Rat(1, 1)))

\* 1 / 0 has failed with the division error
C20_WitnessZero ==
  /\ ev.phase = "done" /\ ev.op = <<"/">>
  /\ ev.l = NumberValue(Rat(1, 1)) /\ ev.r = NumberValue(Zero)
  /\ ev.res.err = <<"division by zero">>


(***************************************************************************)
(* SpecLine: one line typed at the prompt of main, on an empty table.  The *)
(* lines are a line number, a statement and up to MaxExtra further words.  *)
(***************************************************************************)
MaxExtra == 2

\* the index after the bytes of set that follow index i of s
RECURSIVE skipBytes(_, _, _)
skipBytes(s, i, set) ==
  IF i < Len(s) /\ s[i + 1] \in set THEN skipBytes(s, i + 1, set) ELSE i

NotNumbered == [lineNo |-> 0, rest |-> <<>>, ok |-> FALSE]

\* main.go splitLeadingLineNumber: start and i are its indices after the
\* two loops
splitAt(s, start, i) ==
  IF i = start THEN NotNumbered
  ELSE IF i < Len(s) /\ s[i + 1] # " " /\ s[i + 1] # "\t" THEN NotNumbered
  ELSE The({ IF ~a.ok \/ a.n <= 0 THEN NotNumbered
             ELSE [lineNo |-> a.n, rest |-> Slice(s, i, Len(s)), ok |-> TRUE] :
             a \in {parseIntStrict(Slice(s, start, i))} })

splitLeadingLineNumber(s) ==
  The({ splitAt(s, start, skipBytes(s, start, Range(DigitChars))) :
        start \in {skipBytes(s, 0, {" "})} })

\* complete statements, and one that is not (the last but one) and REM
LineBodies ==
  {
    <<"P", "R", "I", "N", "T", " ", "1">>,
    <<"P", "R", "I", "N", "T", " ", "\"", "A", "\"">>,
    <<"L", "E", "T", " ", "X", " ", "=", " ", "1">>,
    <<"X", " ", "=", " ", "X", " ", "+", " ", "1">>,
    <<"I", "N", "P", "U", "T", " ", "X">>,
    <<"G", "O", "T", "O", " ", "1", "0">>, <<"E", "N", "D">>,
    <<"P", "R", "I", "N", "T", " ", "(">>, <<"R", "E", "M">>
  }

LineExtras ==
  {
    <<"2">>, <<"X">>, <<"@">>, <<"\"", "A">>, <<"T", "H", "E", "N">>
  }

LineInputs ==
  { [body |-> b, extra |-> x] :
      b \in LineBodies, x \in UNION { [1..k -> LineExtras] : k \in 0..MaxExtra } }

LineText(in) == JoinWords(<<"1", "0", " ">> \o in.body, in.extra)

LineInit ==
  /\ RunInit
  /\ ev = NoEval /\ en = NoEnvCalls /\ lx = NoLex /\ ex = NoExec
  /\ ps \in { [phase |-> "line", in |-> i, text |-> LineText(i), numbered |-> FALSE,
               lineNo |-> 0, rest |-> <<>>, one |-> NoStatement] : i \in LineInputs }

\* the body of the loop of main for a line that is not blank: a numbered
\* line deletes, is refused with its syntax errors, or is stored; any other
\* line here is an unknown command
EnterLine ==
  /\ ps.phase = "line"
  /\ \E sp \in {splitLeadingLineNumber(ps.text)} :
       \E rest \in {TrimSpace(sp.rest)} :
         \E r \in {IF sp.ok /\ rest # <<>> THEN parseOneStatement(rest) ELSE NoStatement} :
           /\ ps' = [ps EXCEPT !.phase = "entered", !.numbered = sp.ok,
                               !.lineNo = sp.lineNo, !.rest = rest, !.one = r]
           /\ Prog' = IF ~sp.ok THEN Prog
                      ELSE IF rest = <<>> THEN DeleteLine(Prog, sp.lineNo)
                      ELSE IF Len(r.errs) > 0 THEN Prog
                      ELSE SetLine(Prog, sp.lineNo, rest, r.stmt)
  /\ UNCHANGED <<it, order, lineIndex, pc, ops, state, result, last, listing,
                 hist, prev, ev, en, lx, ex>>

LineNext == EnterLine

SpecLine == LineInit /\ [][LineNext]_vars

\* the statement of the line is complete and is not REM
CompleteBody(b) == b \notin { <<"P", "R", "I", "N", "T", " ", "(">>, <<"R", "E", "M">> }

\* C21: a line whose statement is complete and is followed by further words
\* (a number, an identifier, an unrecognized byte, an unterminated string)
\* gives no statement and at least one error, and is not stored.
C21_WholeLine ==
  (ps.phase = "entered" /\ CompleteBody(ps.in.body) /\ ps.in.extra # <<>>) =>
    /\ ps.one.stmt = Nil
    /\ Len(ps.one.errs) >= 1
    /\ Prog = NewProgram


(***************************************************************************)
(* SpecStep: execStmt on one statement of any kind, at a line of a         *)
(* three-line program, in an environment with or without variables, with   *)
(* one of the inputs of StepTapes to read.                                 *)
(***************************************************************************)
NameA == <<"A", "$">>
NameY == <<"Y">>

\* the inputs: the bytes to read (in), the first line without its line
\* ending (line), whether that line is a number and the number it denotes
StepTapes ==
  {
    [in |-> <<"5", "\n">>, line |-> <<"5">>, isNum |-> TRUE, num |-> Rat(5, 1)],
    [in |-> <<"1", ".", "5", "\r", "\n">>, line |-> <<"1", ".", "5">>, isNum |-> TRUE, num |-> Rat(3, 2)],
    [in |-> <<" ", "2", " ", "\n">>, line |-> <<" ", "2", " ">>, isNum |-> TRUE, num |-> Rat(2, 1)],
    [in |-> <<"-", "3", "\n", "7", "\n">>, line |-> <<"-", "3">>, isNum |-> TRUE, num |-> Rat(-3, 1)],
    [in |-> <<"Q", "\n">>, line |-> <<"Q">>, isNum |-> FALSE, num |-> Zero],
    [in |-> <<>>, line |-> <<>>, isNum |-> FALSE, num |-> Zero],
    [in |-> <<"\n">>, line |-> <<>>, isNum |-> FALSE, num |-> Zero],
    [in |-> <<"A", "B">>, line |-> <<"A", "B">>, isNum |-> FALSE, num |-> Zero]
  }

StepEnvs ==
  { NewEnv,
    [NewEnv EXCEPT !.NumVars = (NameX :> Rat(5, 1))],
    [NumVars |-> (NameX :> Rat(5, 1)), StrVars |-> (NameA :> <<"B">>)] }

StepStmts ==
  PlainStmts \cup IfStmts(MaxNest) \cup
  { InputStmt(NameA), InputStmt(<<"x">>),
    LetStmt(NameA, StringLit(<<"A">>)), LetStmt(NameA, Lit(1)),
    LetStmt(NameX, BinaryExpr(<<"+">>, VarRef(NameY), Lit(1))),
    PrintStmt(<<VarRef(NameY), VarRef(<<"B", "$">>)>>),
    IfStmt(VarRef(NameY), EndStmt, 0, FALSE),
    IfStmt(Lit(1), InputStmt(NameA), 0, FALSE) }

StepInit ==
  /\ RunInit
  /\ ev = NoEval /\ ps = NoParse /\ en = NoEnvCalls /\ lx = NoLex
  /\ ex \in { [phase |-> "input", stmt |-> s, pc |-> p, tape |-> t,
               it |-> [NewInterpreter(t.in, <<>>) EXCEPT !.Env = e],
               res |-> Done(0, FALSE, NoErr, NoInterpreter)] :
             s \in StepStmts, p \in {0, 2}, e \in StepEnvs, t \in StepTapes }

StepNext == ExecIf

SpecStep == StepInit /\ [][StepNext]_vars


(***************************************************************************)
(* Properties of the runs of SpecLoop.                                     *)
(***************************************************************************)
\* the condition of an IF is true: it evaluates to a number other than 0
CondTrue(stmt, env) ==
  LET c == evalExpr(env, stmt.Cond)
  IN  c.err = NoErr /\ c.v.Kind = ValNumber /\ c.v.Num # Zero

\* stmt is END, or an IF with a true condition whose embedded statement is
RECURSIVE ComesToEnd(_, _)
ComesToEnd(stmt, env) ==
  CASE stmt.node = "EndStmt" -> TRUE
    [] stmt.node = "IfStmt" ->
         CondTrue(stmt, env) /\ ~stmt.HasLine /\ ComesToEnd(stmt.ThenStmt, env)
    [] OTHER -> FALSE

\* the loop of Run is about to execute the statement at the pointer
Executing == state = "running" /\ ops < it.MaxOps

\* C15: when the statement executed is END, or an IF with a true condition
\* around END, Run returns with no error, the output and the variables are
\* as they were, and the END line is the last line executed: once Run has
\* returned nothing more is executed or written.
C15_EndStops ==
  /\ [][(Executing /\ ComesToEnd(CurStmt, it.Env)) =>
          /\ state' = "returned" /\ result' = NoErr
          /\ it'.Out = it.Out /\ it'.Env = it.Env
          /\ hist'.trace = Append(hist.trace, CurLine)
          /\ hist'.ended]_vars
  /\ [][state = "returned" => (hist' = hist /\ it' = it /\ state' = "returned")]_vars
  /\ [](hist.ended => (state = "returned" /\ result = NoErr))

\* the run of 10 IF 1 THEN END, 20 PRINT X, 30 LET X = X + 1, 40 GOTO 20 has
\* stopped at line 10 without error and without output: the lines after it
\* were never executed
C15_Witness ==
  /\ state = "returned" /\ result = NoErr /\ hist.ended
  /\ DOMAIN Prog.Stmts = {10, 20, 30, 40}
  /\ Prog.Stmts[10] = IfStmt(Lit(1), EndStmt, 0, FALSE)
  /\ Prog.Stmts[20] = PrintStmt(<<VarRef(NameX)>>)
  /\ Prog.Stmts[40] = GotoStmt(20)
  /\ hist.trace = <<10>> /\ it.Out = <<>>


\* Scenario C: 10 LET X = 1, 20 PRINT X, 30 LET X = X + 1, 40 IF X <= 3 THEN 20
ScenarioC ==
  (10 :> Pool10[1].stmt) @@ (20 :> Pool20[1].stmt) @@
  (30 :> Pool30[1].stmt) @@ (40 :> Pool40[1].stmt)

\* C18: during a run the pointer is between 0 and the number of lines and
\* indexes the ascending list of the stored line numbers; the statement
\* executed at pointer i is the one of the i-th smallest line; after a GOTO n
\* or a true IF ... THEN n with n in the table the pointer is at line n, so
\* the next statement executed is that of line n, forwards or backwards
\* (Scenario C executes 10, then 20 30 40 three times, and prints 1, 2, 3).
C18_PointerAndJumps ==
  /\ [](state \in {"running", "returned"} =>
          /\ pc \in 0..Len(order)
          /\ order = Ascending(DOMAIN Prog.Stmts)
          /\ (state = "running" => pc < Len(order)))
  /\ [][Executing =>
          \E ln \in {Ascending(DOMAIN Prog.Stmts)[pc + 1]} :
            /\ hist'.trace = Append(hist.trace, ln)
            /\ it' = execStmt(Prog.Stmts[ln], ln, lineIndex, pc, it).it]_vars
  /\ [][(/\ Executing
          /\ TakesJump(CurStmt, it.Env)
          /\ JumpTarget(CurStmt) \in DOMAIN Prog.Stmts) =>
            /\ state' = "running" /\ result' = NoErr
            /\ order[pc' + 1] = JumpTarget(CurStmt)]_vars
  /\ []((Prog.Stmts = ScenarioC /\ state = "returned") =>
          /\ result = NoErr
          /\ hist.trace = <<10, 20, 30, 40, 20, 30, 40, 20, 30, 40>>
          /\ it.Out = << <<"1", "\n">>, <<"2", "\n">>, <<"3", "\n">> >>)

\* Scenario C has run to its end: the IF of line 40 went back to line 20
\* twice and the output is 1, 2, 3
C18_Witness ==
  /\ Prog.Stmts = ScenarioC /\ state = "returned" /\ result = NoErr
  /\ hist.trace = <<10, 20, 30, 40, 20, 30, 40, 20, 30, 40>>
  /\ it.Out = << <<"1", "\n">>, <<"2", "\n">>, <<"3", "\n">> >>
  /\ pc = Len(order)


(***************************************************************************)
(* Properties of the steps of SpecStep.                                    *)
(***************************************************************************)
\* the step executed an INPUT statement at top level
InputDone == ex.phase = "done" /\ ex.stmt.node = "InputStmt"

C22_WitnessText ==
  /\ InputDone /\ ex.stmt = InputStmt(NameA)
  /\ ex.tape.in = <<>>
  /\ EnvGet(ex.it.Env, NameA) = StringValue(<<"B">>)
  /\ ex.res.err = NoErr
  /\ EnvGet(ex.res.it.Env, NameA) = StringValue(<<>>)


\* the name of the variable that stmt assigns in env: that of a LET or an
\* INPUT, at top level or under IFs with true conditions (the empty name
\* when stmt assigns none)
RECURSIVE Target(_, _)
Target(stmt, env) ==
  CASE stmt.node \in {"LetStmt", "InputStmt"} -> stmt.Name
    [] stmt.node = "IfStmt" ->
         IF CondTrue(stmt, env) /\ ~stmt.HasLine
           THEN Target(stmt.ThenStmt, env) ELSE <<>>
    [] OTHER -> <<>>

\* the variables of the environment, by kind and normalized name
Slots(env) ==
  { <<ValNumber, k>> : k \in DOMAIN env.NumVars } \cup
  { <<ValString, k>> : k \in DOMAIN env.StrVars }

SlotValue(env, slot) ==
  IF slot[1] = ValNumber THEN env.NumVars[slot[2]] ELSE env.StrVars[slot[2]]

\* the slot of a name
SlotOf(name) == <<KindOfName(name), ToUpper(name)>>

\* C23: a step leaves the environment as it was, with the same variables and
\* values, unless it executes a LET or an INPUT without error (at top level
\* or under IFs with true conditions); then the variables are those of
\* before and the target, and every variable but the target has its value
\* of before.  REM, PRINT, GOTO, END, an IF that is false or jumps, and the
\* reading of unset variables in expressions and conditions change nothing.
C23_EnvFrame ==
  ex.phase = "done" =>
    \E t \in {Target(ex.stmt, ex.it.Env)} :
      IF t = <<>> \/ ex.res.err # NoErr
        THEN ex.res.it.Env = ex.it.Env
        ELSE /\ Slots(ex.res.it.Env) = Slots(ex.it.Env) \cup {SlotOf(t)}
             /\ \A sl \in Slots(ex.it.Env) \ {SlotOf(t)} :
                  SlotValue(ex.res.it.Env, sl) = SlotValue(ex.it.Env, sl)

\* PRINT Y, B$ with both unset has printed and the environment still holds
\* X and A$ only
C23_Witness ==
  /\ ex.phase = "done"
  /\ ex.stmt = PrintStmt(<<VarRef(NameY), VarRef(<<"B", "$">>)>>)
  /\ ex.res.err = NoErr /\ Len(ex.res.it.Out) = 1
  /\ Slots(ex.it.Env) = {<<ValNumber, NameX>>, <<ValString, NameA>>}
  /\ ex.res.it.Env = ex.it.Env

\* LET X = Y + 1 with Y unset has set X to 1 beside A$ and has not made Y
C23_WitnessLet ==
  /\ ex.phase = "done"
  /\ ex.stmt = LetStmt(NameX, BinaryExpr(<<"+">>, VarRef(NameY), Lit(1)))
  /\ ex.res.err = NoErr
  /\ Slots(ex.res.it.Env) = {<<ValNumber, NameX>>, <<ValString, NameA>>}
  /\ ex.res.it.Env.NumVars[NameX] = Rat(1, 1)


(***************************************************************************)
(* Properties of the program table and the environment.                    *)
(***************************************************************************)
\* the map after is the map before with key k holding v, all else as it was
SetIn(before, after, k, v) ==
  /\ DOMAIN after = DOMAIN before \cup {k}
  /\ after[k] = v
  /\ \A m \in DOMAIN before \ {k} : after[m] = before[m]

\* the map after is the map before without key k, all else as it was
RemovedFrom(before, after, k) ==
  /\ DOMAIN after = DOMAIN before \ {k}
  /\ \A m \in DOMAIN after : after[m] = before[m]

\* C11: SetLine(n, src, stmt) makes line n hold exactly (src, stmt), inserted
\* or replaced, and DeleteLine(n) removes line n or does nothing when n is
\* absent; both leave every other line as it was; and the source-text map
\* and the statement map always have the same set of line numbers.
C11_TableFrame ==
  /\ [][(state' = "done" /\ last'.cmd = "SetLine") =>
          /\ SetIn(Prog.Source, Prog'.Source, last'.line, last'.src)
          /\ SetIn(Prog.Stmts, Prog'.Stmts, last'.line, last'.stmt)]_vars
  /\ [][(state' = "done" /\ last'.cmd = "DeleteLine") =>
          /\ RemovedFrom(Prog.Source, Prog'.Source, last'.line)
          /\ RemovedFrom(Prog.Stmts, Prog'.Stmts, last'.line)]_vars
  /\ [](DOMAIN Prog.Source = DOMAIN Prog.Stmts)

\* line 20 has just been set in a table that also holds lines 10 and 30
C11_Witness ==
  /\ state = "done" /\ last.cmd = "SetLine" /\ last.line = 20
  /\ DOMAIN Prog.Stmts = {10, 20, 30}
  /\ Prog.Stmts[20] = last.stmt /\ Prog.Source[20] = last.src

=============================================================================
